---- MODULE Spec2Model ----
(***************************************************************************)
(* Model of touchHLE's dynamic linker (src/src/dyld.rs): initial linking   *)
(* (lazy-link stub installation, non-lazy linking), lazy resolution (host  *)
(* tier, guest tier) and SVC dispatch, over a small guest address space    *)
(* holding two binaries with call stubs and a third, export-only dylib     *)
(* (Spec); and search_lists on its own over bounded registries             *)
(* (SearchSpec).                                                           *)
(*                                                                         *)
(* A u32 is the pair <<hi, lo>>: hi its top 8 bits, lo its low 24 bits, so  *)
(* that the A32 encodings (0xef000000 | imm, 0xe12fff1e, ...) and the       *)
(* wrapping arithmetic of the code are exact.  An Option is a sequence of   *)
(* length 0 (None) or 1 (Some).                                            *)
(***************************************************************************)
EXTENDS Integers, Sequences, FiniteSets, TLC

VARIABLES
    bins,                   \* &[MachO]: the loaded binaries, bins[1] the app
    mem,                    \* Mem: guest memory, word address -> u32
    linked_host_functions,  \* Dyld.linked_host_functions
    return_to_host_routine, \* Dyld.return_to_host_routine: Option<GuestFunction>
    phase,                  \* "new" | "linked" | "panicked"
    panic,                  \* Option<message>: the panic that aborted the process
    last,                   \* the last handler run: its arguments and return value
    search,                 \* a call of search_lists: its arguments and return value
    cpu,                    \* Cpu: the registers and the status word of the engine
    cpu_last,               \* the last call on the Cpu: its arguments and return value
    env,                    \* Environment: the NSThread registry, the objects, the pthreads
    thread_last             \* the last NSThread handler run: its arguments and return value

vars == <<bins, mem, linked_host_functions, return_to_host_routine, phase, panic, last,
          search, cpu, cpu_last, env, thread_last>>

dyld_vars == <<bins, mem, linked_host_functions, return_to_host_routine, phase, panic, last>>

cpu_vars == <<cpu, cpu_last>>

thread_vars == <<env, thread_last>>

-----------------------------------------------------------------------------
(* u32 values *)

\* imm & 0xff000000 == 0  <=>  imm < 2^24
ImmLimit == 16777216

U32(a) == <<0, a>>

None == <<>>

Some(x) == <<x>>

IsSome(o) == Len(o) = 1

\* a panic and its message: the text, the symbol or expression it names, and,
\* for "Unexpected SVC #{} at {:#x}", the code and the address
Panic(msg, what, svc, svc_pc) == Some(<<msg, what, svc, svc_pc>>)

\* u32 wrapping addition
Add32(x, y) ==
    LET lo == x[2] + y[2]
    IN  <<(x[1] + y[1] + (lo \div ImmLimit)) % 256, lo % ImmLimit>>

\* whether x + y exceeds u32::MAX
Overflows32(x, y) == x[1] + y[1] + ((x[2] + y[2]) \div ImmLimit) >= 256

\* u32 wrapping subtraction
Sub32(x, y) ==
    LET borrow == IF x[2] < y[2] THEN 1 ELSE 0
    IN  <<(x[1] - y[1] - borrow + 512) % 256, (x[2] - y[2] + ImmLimit) % ImmLimit>>

-----------------------------------------------------------------------------
(* Cpu: registers, status word, branch and branch_with_link *)

SP == 13

LR == 14

PC == 15

\* 0x00000020
CPSR_THUMB == <<0, 32>>

\* 0x00000010
CPSR_USER_MODE == <<0, 16>>

\* bitwise and, or of naturals
RECURSIVE BitAnd(_, _)
BitAnd(a, b) ==
    IF a = 0 \/ b = 0 THEN 0 ELSE (a % 2) * (b % 2) + 2 * BitAnd(a \div 2, b \div 2)

RECURSIVE BitOr(_, _)
BitOr(a, b) ==
    IF a = 0 THEN b
    ELSE IF b = 0 THEN a
    ELSE (IF a % 2 = 1 \/ b % 2 = 1 THEN 1 ELSE 0) + 2 * BitOr(a \div 2, b \div 2)

\* u32 &, | and !
And32(x, y) == <<BitAnd(x[1], y[1]), BitAnd(x[2], y[2])>>

Or32(x, y) == <<BitOr(x[1], y[1]), BitOr(x[2], y[2])>>

Not32(x) == <<255 - x[1], (ImmLimit - 1) - x[2]>>

\* GuestFunction: a guest address whose bit 0 is the Thumb bit
from_addr_with_thumb_bit(addr) == addr

from_addr_and_thumb_flag(pc, thumb) == Or32(pc, IF thumb THEN U32(1) ELSE U32(0))

addr_with_thumb_bit(f) == f

addr_without_thumb_bit(f) == And32(f, Not32(U32(1)))

guest_function_is_thumb(f) == And32(f, U32(1)) = U32(1)

\* the processor after construction: registers zero, user mode, A32
NewCpu == [regs |-> [i \in 0..15 |-> U32(0)], cpsr |-> CPSR_USER_MODE]

NoCpuCall == [op |-> "new", new_pc |-> U32(0), new_lr |-> U32(0), ret |-> None]

\* Cpu::pc_with_thumb_bit
pc_with_thumb_bit(c) ==
    LET pc == c.regs[PC]
        thumb == And32(c.cpsr, CPSR_THUMB) = CPSR_THUMB
    IN  from_addr_and_thumb_flag(pc, thumb)

\* branch, leaving the Thumb flag of the status word as it is
branch_keeps_mode(c, new_pc) ==
    [c EXCEPT !.regs[PC] = addr_without_thumb_bit(new_pc)]

\* Cpu::branch: the processor afterwards
branch(c, new_pc) ==
    LET cpsr_without_thumb == And32(c.cpsr, Not32(CPSR_THUMB))
    IN  [c EXCEPT !.regs[PC] = addr_without_thumb_bit(new_pc),
                  !.cpsr = Or32(cpsr_without_thumb,
                                IF guest_function_is_thumb(new_pc) THEN CPSR_THUMB ELSE U32(0))]

\* branch_with_link reading PC and LR after writing them
branch_with_link_returns_new(c, new_pc, new_lr) ==
    LET after == [branch(c, new_pc) EXCEPT !.regs[LR] = addr_with_thumb_bit(new_lr)]
    IN  [cpu |-> after,
         ret |-> <<pc_with_thumb_bit(after), from_addr_with_thumb_bit(after.regs[LR])>>]

\* Cpu::branch_with_link: the processor afterwards and the pair returned
branch_with_link(c, new_pc, new_lr) ==
    LET old_pc == pc_with_thumb_bit(c)
        old_lr == from_addr_with_thumb_bit(c.regs[LR])
    IN  [cpu |-> [branch(c, new_pc) EXCEPT !.regs[LR] = addr_with_thumb_bit(new_lr)],
         ret |-> <<old_pc, old_lr>>]

-----------------------------------------------------------------------------
(* NSThread: the registry of NSThread objects, and the thread objects *)

nil == 0

\* the pthread the process starts with
MainThread == 1

\* two objects of the guest, passed as target and as argument
GuestTarget1 == 101

GuestArgument1 == 102

\* bounds: the NSThread objects allocated, and the pthreads created
MaxObjects == 2

MaxPthreads == 2

\* f with the key k removed
Without(f, k) == [x \in DOMAIN f \ {k} |-> f[x]]

\* HashMap::insert
Insert(f, k, v) == [x \in DOMAIN f \cup {k} |-> IF x = k THEN v ELSE f[x]]

\* the environment at process start: an empty registry, the guest's own
\* references to its two objects, the main thread running
NewEnvironment ==
    [ns_threads  |-> <<>>,
     objects     |-> <<>>,
     refs        |-> [o \in {GuestTarget1, GuestArgument1} |-> 1],
     threads     |-> [t \in {MainThread} |-> [arg |-> nil, state |-> "running"]],
     next_object |-> 1,
     next_pthread |-> MainThread + 1,
     panic       |-> None]

NoThreadCall == [op |-> "none", pthread |-> 0, this |-> nil, ret |-> nil]

EnvResult(e, ret) == [env |-> e, ret |-> ret]

\* objc::retain
retain(e, object) ==
    IF object = nil THEN e ELSE [e EXCEPT !.refs[object] = @ + 1]

\* objc::release; the last release deallocates ([NSThread dealloc] releases
\* the thread dictionary, nil here, and frees the host object)
release(e, object) ==
    IF object = nil THEN e
    ELSE IF object \notin DOMAIN e.refs
    THEN [e EXCEPT !.panic = Some("release of a deallocated object")]
    ELSE IF e.refs[object] > 1
    THEN [e EXCEPT !.refs[object] = @ - 1]
    ELSE [e EXCEPT !.refs = Without(@, object), !.objects = Without(@, object)]

\* + allocWithZone: (and NSObject's init)
allocWithZone(e) ==
    LET this == e.next_object
    IN  EnvResult([e EXCEPT !.objects = Insert(@, this,
                                 [target |-> nil, selector |-> None, object |-> nil,
                                  thread_dictionary |-> nil, owned |-> FALSE]),
                            !.refs = Insert(@, this, 1),
                            !.next_object = @ + 1],
                  this)

\* currentThread creating an object on every call
currentThread_always_creates(e, pthread) ==
    LET a == allocWithZone(e)
    IN  EnvResult([a.env EXCEPT !.ns_threads = Insert(@, pthread, a.ret)], a.ret)

\* + currentThread, called on the running pthread
currentThread(e, pthread) ==
    LET e1 == IF pthread \notin DOMAIN e.ns_threads
              THEN LET a == allocWithZone(e)
                   IN  [a.env EXCEPT !.ns_threads = Insert(@, pthread, a.ret)]
              ELSE e
    IN  EnvResult(e1, e1.ns_threads[pthread])

\* - initWithTarget:selector:object:
initWithTarget(e, this, target, selector, object) ==
    LET e1 == [e EXCEPT !.objects[this].target = target]
        e2 == retain(e1, target)
        e3 == [e2 EXCEPT !.objects[this].selector = Some(selector),
                         !.objects[this].object = object]
    IN  EnvResult(retain(e3, object), this)

\* libc pthread_create: a new pthread that will run the start routine on arg
pthread_create(e, arg) ==
    LET pthread == e.next_pthread
    IN  EnvResult([e EXCEPT !.threads = Insert(@, pthread, [arg |-> arg, state |-> "created"]),
                            !.next_pthread = @ + 1],
                  pthread)

\* - start
start(e, this) ==
    LET created == pthread_create(e, this)
        pthread == created.ret
        e1 == created.env
    IN  IF pthread \in DOMAIN e1.ns_threads
        THEN EnvResult([e1 EXCEPT !.panic =
                           Some("assertion failed: !ns_threads.contains_key(&pthread)")], nil)
        ELSE EnvResult([e1 EXCEPT !.ns_threads = Insert(@, pthread, this)], nil)

\* + detachNewThreadSelector:toTarget:withObject:
detachNewThreadSelector(e, selector, target, object) ==
    LET a == allocWithZone(e)
        new == a.ret
        e1 == initWithTarget(a.env, new, target, selector, object).env
        e2 == [e1 EXCEPT !.objects[new].owned = TRUE]
    IN  start(e2, new)

\* _touchHLE_NSThreadInvocationHelper up to the call of the method the thread
\* runs: the class check, and - main sending the selector to the target
invocation_helper_main(e, pthread) ==
    LET ns_thread_obj == e.threads[pthread].arg
    IN  IF ns_thread_obj \notin DOMAIN e.objects
        THEN [e EXCEPT !.panic = Some("message to a deallocated object")]
        ELSE IF e.objects[ns_thread_obj].selector = None
        THEN [e EXCEPT !.panic = Some("called Option::unwrap() on a None value")]
        ELSE [e EXCEPT !.threads[pthread].state = "running"]

\* _touchHLE_NSThreadInvocationHelper after main returned
invocation_helper_finish(e, pthread) ==
    LET ns_thread_obj == e.threads[pthread].arg
    IN  IF ns_thread_obj \notin DOMAIN e.objects
        THEN [e EXCEPT !.panic = Some("message to a deallocated object")]
        ELSE
        LET host == e.objects[ns_thread_obj]
            e1 == release(e, host.object)
            e2 == IF IsSome(e1.panic) THEN e1 ELSE release(e1, host.target)
            res == pthread \in DOMAIN e2.ns_threads
            e3 == [e2 EXCEPT !.ns_threads = Without(@, pthread)]
            e4 == IF host.owned THEN release(e3, ns_thread_obj) ELSE e3
        IN  IF IsSome(e2.panic) THEN e2
            ELSE IF ~res
            THEN [e3 EXCEPT !.panic = Some("assertion failed: res.is_some()")]
            ELSE [e4 EXCEPT !.threads[pthread].state = "finished"]

-----------------------------------------------------------------------------
(* Instruction encodings *)

\* imm | 0xef000000, for an imm below 2^24
encode_a32_svc(imm) == <<239, imm[2]>>

encode_a32_ret == <<225, 3145502>>

encode_a32_trap == <<231, 16768766>>

SVC_LAZY_LINK == 0

SVC_RETURN_TO_HOST == 1

SVC_LINKED_FUNCTIONS_BASE == SVC_RETURN_TO_HOST + 1

SYMBOL_STUB_INSTRUCTIONS == << <<229, 10469376>>, <<229, 10285056>> >>

PIC_SYMBOL_STUB_INSTRUCTIONS == << <<229, 10469380>>, <<224, 9420812>>, <<229, 10285056>> >>

-----------------------------------------------------------------------------
(* Guest memory *)

\* Ptr::from_bits: the word address a u32 names (-1: outside the modelled space)
Ptr_from_bits(w) == IF w[1] = 0 THEN w[2] ELSE -1

MemRead(m, a) == m[a]

MemWrite(m, a, v) == IF m[a] = v THEN m ELSE [m EXCEPT ![a] = v]

-----------------------------------------------------------------------------
(* Host function registry *)

\* function_lists::FUNCTION_LISTS: ordered lists of (mangled name, host function)
FUNCTION_LISTS ==
    << << <<"_hostA", "fA_first">>, <<"_both", "fBoth_first">> >>,
       << <<"_hostA", "fA_second">>, <<"_both", "fBoth_second">>, <<"_hostC", "fC">> >> >>

RECURSIVE Flatten(_)
Flatten(lists) ==
    IF lists = <<>> THEN <<>> ELSE Head(lists) \o Flatten(Tail(lists))

Min(S) == CHOOSE x \in S : \A y \in S : x <= y

\* mutant: the last match wins
search_lists_last_match(lists, symbol) ==
    LET flat == Flatten(lists)
        hits == {i \in 1..Len(flat) : flat[i][1] = symbol}
    IN  IF hits = {} THEN None
        ELSE Some(flat[CHOOSE i \in hits : \A j \in hits : j <= i][2])

\* mutant: the lists are scanned from the last to the first
search_lists_last_list_first(lists, symbol) ==
    LET hits == {i \in 1..Len(lists) : \E j \in 1..Len(lists[i]) : lists[i][j][1] = symbol}
        list == lists[CHOOSE i \in hits : \A h \in hits : h <= i]
    IN  IF hits = {} THEN None
        ELSE Some(list[Min({j \in 1..Len(list) : list[j][1] = symbol})][2])

search_lists(lists, symbol) ==
    LET flat == Flatten(lists)
        hits == {i \in 1..Len(flat) : flat[i][1] = symbol}
    IN  IF hits = {} THEN None ELSE Some(flat[Min(hits)][2])

-----------------------------------------------------------------------------
(* Parsed binaries (MachO) *)

get_section(bin, name) ==
    IF name \in DOMAIN bin.sections THEN Some(bin.sections[name]) ELSE None

or_else(a, b) == IF IsSome(a) THEN a ELSE b

\* bin.get_section("__symbol_stub4").or_else(|| bin.get_section("__picsymbolstub4"))
stub_section(bin) ==
    or_else(get_section(bin, "__symbol_stub4"), get_section(bin, "__picsymbolstub4"))

exported_symbols_get(bin, symbol) ==
    IF symbol \in DOMAIN bin.exported_symbols
    THEN Some(bin.exported_symbols[symbol]) ELSE None

-----------------------------------------------------------------------------
(* Dyld::setup_lazy_linking *)

\* the outcome of a handler step: the memory it leaves and the panic that ended it
MemResult(m, p) == [mem |-> m, panic |-> p]

\* match entry_size { 12 => SYMBOL_STUB_INSTRUCTIONS, 16 => PIC_SYMBOL_STUB_INSTRUCTIONS }
expected_instructions(entry_size) ==
    IF entry_size = 12 THEN SYMBOL_STUB_INSTRUCTIONS ELSE PIC_SYMBOL_STUB_INSTRUCTIONS

\* mutant: only the first instruction word is compared with the template
stub_matches_first_word(m, ptr, entry_size) ==
    MemRead(m, ptr) = expected_instructions(entry_size)[1]

\* the assert of the inner loop: every instruction word equals the template
stub_matches(m, ptr, entry_size) ==
    LET expected == expected_instructions(entry_size)
    IN  \A j \in 1..Len(expected) : MemRead(m, ptr + 4 * (j - 1)) = expected[j]

\* mutant: the guard word of the 16-byte layout is not written
install_lazy_stub_without_guard(m, ptr, entry_size) ==
    MemWrite(MemWrite(m, ptr, encode_a32_svc(U32(SVC_LAZY_LINK))), ptr + 4, encode_a32_ret)

\* mutant: the guard word is written in both layouts
install_lazy_stub_always_guards(m, ptr, entry_size) ==
    MemWrite(MemWrite(MemWrite(m, ptr, encode_a32_svc(U32(SVC_LAZY_LINK))),
                      ptr + 4, encode_a32_ret),
             ptr + 8, encode_a32_trap)

\* the three writes of one loop iteration
install_lazy_stub(m, ptr, entry_size) ==
    LET m0 == MemWrite(m, ptr, encode_a32_svc(U32(SVC_LAZY_LINK)))
        m1 == MemWrite(m0, ptr + 4, encode_a32_ret)
    IN  IF entry_size = 16 THEN MemWrite(m1, ptr + 8, encode_a32_trap) ELSE m1

\* for i in 0..stub_count
RECURSIVE setup_stubs_from(_, _, _, _)
setup_stubs_from(m, stubs, entry_size, i) ==
    IF i = stubs.size \div entry_size
    THEN MemResult(m, None)
    ELSE LET ptr == stubs.addr + i * entry_size
         IN  IF ~stub_matches(m, ptr, entry_size)
             THEN MemResult(m, Panic("assertion failed", "mem.read(ptr + j) == instr", 0, 0))
             ELSE setup_stubs_from(install_lazy_stub(m, ptr, entry_size),
                                   stubs, entry_size, i + 1)

setup_lazy_linking(bin, m) ==
    LET found == stub_section(bin)
    IN  IF ~IsSome(found) THEN MemResult(m, None)
        ELSE LET stubs == found[1]
                 entry_size == stubs.dyld_indirect_symbol_info.entry_size
             IN  IF entry_size \notin {12, 16}
                 THEN MemResult(m, Panic("unreachable", "entry_size", 0, 0))
                 ELSE IF stubs.size % entry_size # 0
                 THEN MemResult(m, Panic("assertion failed", "stubs.size % entry_size == 0", 0, 0))
                 ELSE setup_stubs_from(m, stubs, entry_size, 0)

-----------------------------------------------------------------------------
(* Dyld::do_lazy_link *)

\* the outcome of a trap handler: memory, table, return value, panic, and the
\* word addresses of the ranges it passed to Cpu::invalidate_cache_range
SvcResult(m, lhf, ret, p) ==
    [mem |-> m, lhf |-> lhf, ret |-> ret, panic |-> p, invalidated |-> {}]

\* mutant: only the first word of the range is invalidated
invalidate_cache_range_first_word(r, base, size) ==
    [r EXCEPT !.invalidated = @ \cup {base}]

\* cpu.invalidate_cache_range(base, size)
invalidate_cache_range(r, base, size) ==
    [r EXCEPT !.invalidated = @ \cup {base + 4 * i : i \in 0..((size \div 4) - 1)}]

in_section(sec, addr) == sec.addr <= addr /\ addr < sec.addr + sec.size

\* bins.iter().flat_map(stub section).find(range contains svc_pc)
find_stubs(bs, svc_pc) ==
    LET hits == {k \in 1..Len(bs) :
                    /\ IsSome(stub_section(bs[k]))
                    /\ in_section(stub_section(bs[k])[1], svc_pc)}
    IN  IF hits = {} THEN None ELSE Some(stub_section(bs[Min(hits)])[1])

\* mutant: the SVC ID is taken after the push, one past the entry's index
link_host_function_off_by_one(m, lhf, svc_pc, f) ==
    LET lhf1 == Append(lhf, f)
        svc == Len(lhf1) + SVC_LINKED_FUNCTIONS_BASE
    IN  SvcResult(MemWrite(m, svc_pc, encode_a32_svc(U32(svc))), lhf1, Some(f), None)

\* mutant: the function is pushed and returned, the stub is left as it was
link_host_function_without_rewrite(m, lhf, svc_pc, f) ==
    SvcResult(m, Append(lhf, f), Some(f), None)

\* mutant: the function is put at the front of the table
link_host_function_prepends(m, lhf, svc_pc, f) ==
    LET svc == Len(lhf) + SVC_LINKED_FUNCTIONS_BASE
    IN  invalidate_cache_range(
            SvcResult(MemWrite(m, svc_pc, encode_a32_svc(U32(svc))), <<f>> \o lhf, Some(f), None),
            svc_pc, 4)

\* host tier: allocate an SVC ID, rewrite the stub's first word, return Some(f)
link_host_function(m, lhf, svc_pc, f) ==
    LET idx == Len(lhf)
        svc == idx + SVC_LINKED_FUNCTIONS_BASE
        lhf1 == Append(lhf, f)
        m1 == MemWrite(m, svc_pc, encode_a32_svc(U32(svc)))
    IN  IF MemRead(m1, svc_pc + 4) # encode_a32_ret
        THEN SvcResult(m1, lhf1, None,
                       Panic("assertion failed", "mem.read(stub_function_ptr + 1) == encode_a32_ret()", 0, 0))
        ELSE invalidate_cache_range(SvcResult(m1, lhf1, Some(f), None), svc_pc, 4)

\* mutant: only the two words the plain layout has are restored
restore_stub_two_words(m, ptr, original_instructions, i) ==
    MemWrite(MemWrite(m, ptr, original_instructions[1]), ptr + 4, original_instructions[2])

\* for (i, &instr) in original_instructions.iter().enumerate() { mem.write(..) }
RECURSIVE restore_stub(_, _, _, _)
restore_stub(m, ptr, original_instructions, i) ==
    IF i > Len(original_instructions) THEN m
    ELSE restore_stub(MemWrite(m, ptr + 4 * (i - 1), original_instructions[i]),
                      ptr, original_instructions, i + 1)

\* whether computing the __la_symbol_ptr address overflows u32 (PIC layout only)
la_symbol_ptr_overflows(m, svc_pc, entry_size, instruction_count) ==
    LET offset == MemRead(m, svc_pc + 4 * instruction_count)
    IN  /\ entry_size # 12
        /\ \/ Overflows32(U32(svc_pc), offset)
           \/ Overflows32(Add32(U32(svc_pc), offset), U32(8))

\* mutant: the plain stub's trailing cell itself is taken as the pointer slot
la_symbol_ptr_trailing_cell(m, svc_pc, entry_size, instruction_count) ==
    IF entry_size = 12
    THEN svc_pc + 4 * instruction_count
    ELSE LET offset == MemRead(m, svc_pc + 4 * instruction_count)
         IN  Ptr_from_bits(Add32(Add32(U32(svc_pc), offset), U32(8)))

\* the address of the __la_symbol_ptr the stub uses
la_symbol_ptr(m, svc_pc, entry_size, instruction_count) ==
    IF entry_size = 12
    THEN Ptr_from_bits(MemRead(m, svc_pc + 4 * instruction_count))
    ELSE LET offset == MemRead(m, svc_pc + 4 * instruction_count)
         IN  Ptr_from_bits(Add32(Add32(U32(svc_pc), offset), U32(8)))

\* mutant: the PIC layout gets the target as an offset from the stub address plus 8
link_guest_function_writes_offset(m, lhf, oc, svc_pc, entry_size, addr) ==
    LET original_instructions == expected_instructions(entry_size)
        instruction_count == Len(original_instructions)
        m1 == restore_stub(m, svc_pc, original_instructions, 1)
        value == IF entry_size = 12 THEN addr ELSE Sub32(addr, U32(svc_pc + 8))
    IN  IF oc /\ la_symbol_ptr_overflows(m1, svc_pc, entry_size, instruction_count)
        THEN SvcResult(m1, lhf, None, Panic("attempt to add with overflow", "la_symbol_ptr", 0, 0))
        ELSE SvcResult(MemWrite(m1, la_symbol_ptr(m1, svc_pc, entry_size, instruction_count), value),
                       lhf, None, None)

\* guest tier, for the dylib that exports the symbol at addr
link_guest_function(m, lhf, oc, svc_pc, entry_size, addr) ==
    IF entry_size \notin {12, 16}
    THEN SvcResult(m, lhf, None, Panic("unreachable", "entry_size", 0, 0))
    ELSE
    LET original_instructions == expected_instructions(entry_size)
        instruction_count == Len(original_instructions)
        m1 == restore_stub(m, svc_pc, original_instructions, 1)
    IN  invalidate_cache_range(
            IF oc /\ la_symbol_ptr_overflows(m1, svc_pc, entry_size, instruction_count)
            THEN SvcResult(m1, lhf, None, Panic("attempt to add with overflow", "la_symbol_ptr", 0, 0))
            ELSE SvcResult(MemWrite(m1, la_symbol_ptr(m1, svc_pc, entry_size, instruction_count), addr),
                           lhf, None, None),
            svc_pc, instruction_count * 4)

\* mutant: every loaded binary is searched, the first included
searched_bins_all(bs) == 1..Len(bs)

\* for dylib in &bins[1..]: the binaries whose exports are searched, in order
searched_bins(bs) == 2..Len(bs)

\* mutant: an unresolved symbol is skipped and execution resumes
unimplemented_function_resumes(m, lhf, symbol) == SvcResult(m, lhf, None, None)

\* panic!("Call to unimplemented function {}", symbol)
unimplemented_function(m, lhf, symbol) ==
    SvcResult(m, lhf, None, Panic("Call to unimplemented function", symbol, 0, 0))

\* the first searched dylib exporting the symbol
find_export(bs, symbol) ==
    LET hits == {k \in searched_bins(bs) : IsSome(exported_symbols_get(bs[k], symbol))}
    IN  IF hits = {} THEN None ELSE exported_symbols_get(bs[Min(hits)], symbol)

\* mutant: the offset is rounded down to a stub instead of asserted aligned
do_lazy_link_rounds_down(bs, m, lhf, oc, svc_pc) ==
    LET found == find_stubs(bs, svc_pc)
        info == found[1].dyld_indirect_symbol_info
        offset == svc_pc - found[1].addr
        name == info.indirect_undef_symbols[(offset \div info.entry_size) + 1]
        f == search_lists(FUNCTION_LISTS, name[1])
        addr == find_export(bs, name[1])
    IN  IF ~IsSome(found)
        THEN SvcResult(m, lhf, None, Panic("unwrap on None", "stubs", 0, 0))
        ELSE IF ~IsSome(name)
        THEN SvcResult(m, lhf, None, Panic("unwrap on None", "symbol", 0, 0))
        ELSE IF IsSome(f)
        THEN link_host_function(m, lhf, svc_pc, f[1])
        ELSE IF IsSome(addr)
        THEN link_guest_function(m, lhf, oc, svc_pc, info.entry_size, addr[1])
        ELSE unimplemented_function(m, lhf, name[1])

\* mutant: the guest tier is tried before the host tier
do_lazy_link_guest_first(bs, m, lhf, oc, svc_pc) ==
    LET found == find_stubs(bs, svc_pc)
        info == found[1].dyld_indirect_symbol_info
        offset == svc_pc - found[1].addr
        name == info.indirect_undef_symbols[(offset \div info.entry_size) + 1]
        f == search_lists(FUNCTION_LISTS, name[1])
        addr == find_export(bs, name[1])
    IN  IF ~IsSome(found)
        THEN SvcResult(m, lhf, None, Panic("unwrap on None", "stubs", 0, 0))
        ELSE IF offset % info.entry_size # 0
        THEN SvcResult(m, lhf, None,
                       Panic("assertion failed", "offset % info.entry_size == 0", 0, 0))
        ELSE IF ~IsSome(name)
        THEN SvcResult(m, lhf, None, Panic("unwrap on None", "symbol", 0, 0))
        ELSE IF IsSome(addr)
        THEN link_guest_function(m, lhf, oc, svc_pc, info.entry_size, addr[1])
        ELSE IF IsSome(f)
        THEN link_host_function(m, lhf, svc_pc, f[1])
        ELSE unimplemented_function(m, lhf, name[1])

do_lazy_link(bs, m, lhf, oc, svc_pc) ==
    LET found == find_stubs(bs, svc_pc)
    IN  IF ~IsSome(found)
        THEN SvcResult(m, lhf, None, Panic("unwrap on None", "stubs", 0, 0))
        ELSE
        LET info == found[1].dyld_indirect_symbol_info
            offset == svc_pc - found[1].addr
        IN  IF offset % info.entry_size # 0
            THEN SvcResult(m, lhf, None,
                           Panic("assertion failed", "offset % info.entry_size == 0", 0, 0))
            ELSE
            LET idx == offset \div info.entry_size
                name == info.indirect_undef_symbols[idx + 1]
            IN  IF ~IsSome(name)
                THEN SvcResult(m, lhf, None, Panic("unwrap on None", "symbol", 0, 0))
                ELSE
                LET symbol == name[1]
                    f == search_lists(FUNCTION_LISTS, symbol)
                    addr == find_export(bs, symbol)
                IN  IF IsSome(f)
                    THEN link_host_function(m, lhf, svc_pc, f[1])
                    ELSE IF IsSome(addr)
                    THEN link_guest_function(m, lhf, oc, svc_pc, info.entry_size, addr[1])
                    ELSE unimplemented_function(m, lhf, symbol)

-----------------------------------------------------------------------------
(* Dyld::get_svc_handler *)

\* mutant: a code with no table entry is answered None instead of panicking
get_svc_handler_unchecked(bs, m, lhf, oc, svc_pc, svc) ==
    IF svc = SVC_LAZY_LINK THEN do_lazy_link(bs, m, lhf, oc, svc_pc)
    ELSE LET i == svc - SVC_LINKED_FUNCTIONS_BASE
         IN  IF i + 1 \in 1..Len(lhf)
             THEN SvcResult(m, lhf, Some(lhf[i + 1]), None)
             ELSE SvcResult(m, lhf, None, None)

\* mutant: dispatching a linked function makes its stub lazy again
get_svc_handler_relinks(bs, m, lhf, oc, svc_pc, svc) ==
    IF svc = SVC_LAZY_LINK THEN do_lazy_link(bs, m, lhf, oc, svc_pc)
    ELSE IF svc = SVC_RETURN_TO_HOST
    THEN SvcResult(m, lhf, None, Panic("unreachable", "SVC_RETURN_TO_HOST", 0, 0))
    ELSE LET i == svc - SVC_LINKED_FUNCTIONS_BASE
         IN  IF i + 1 \in 1..Len(lhf)
             THEN SvcResult(MemWrite(m, svc_pc, encode_a32_svc(U32(SVC_LAZY_LINK))),
                            lhf, Some(lhf[i + 1]), None)
             ELSE SvcResult(m, lhf, None, Panic("Unexpected SVC", "", svc, svc_pc))

get_svc_handler(bs, m, lhf, oc, svc_pc, svc) ==
    IF svc = SVC_LAZY_LINK THEN do_lazy_link(bs, m, lhf, oc, svc_pc)
    ELSE IF svc = SVC_RETURN_TO_HOST
    THEN SvcResult(m, lhf, None, Panic("unreachable", "SVC_RETURN_TO_HOST", 0, 0))
    ELSE LET i == svc - SVC_LINKED_FUNCTIONS_BASE
         IN  IF i + 1 \in 1..Len(lhf)
             THEN SvcResult(m, lhf, Some(lhf[i + 1]), None)
             ELSE SvcResult(m, lhf, None, Panic("Unexpected SVC", "", svc, svc_pc))

-----------------------------------------------------------------------------
(* Dyld::do_non_lazy_linking and Dyld::do_initial_linking *)

\* str::strip_prefix over the relocation names of the modelled binaries
strip_prefix(name, prefix) ==
    LET table == { <<"_OBJC_CLASS_$_Foo", "_OBJC_CLASS_$_", "Foo">>,
                   <<"_OBJC_METACLASS_$_Foo", "_OBJC_METACLASS_$_", "Foo">>,
                   <<"_OBJC_CLASS_$_Bar", "_OBJC_CLASS_$_", "Bar">> }
        hits == {t \in table : t[1] = name /\ t[2] = prefix}
    IN  IF hits = {} THEN None ELSE Some((CHOOSE t \in hits : TRUE)[3])

\* ObjC::link_class: the reference of the (meta)class object of that name
link_class(name, is_metaclass) ==
    U32(49152 + (IF name = "Foo" THEN 0 ELSE 64) + (IF is_metaclass THEN 32 ELSE 0))

\* the outcome of a linking step: memory, panic, and the log of what it did,
\* in order: calls of the object runtime, allocations, writes of relocation
\* targets and warnings on stderr, each <<what, address, name>>
LinkResult(m, p, log) == [mem |-> m, panic |-> p, log |-> log]

\* mutant: every external relocation is linked as a class
link_relocations_links_everything(m, relocs, i) ==
    LET target(j) == link_class(IF IsSome(strip_prefix(relocs[j][2], "_OBJC_CLASS_$_"))
                                THEN strip_prefix(relocs[j][2], "_OBJC_CLASS_$_")[1]
                                ELSE relocs[j][2],
                                IsSome(strip_prefix(relocs[j][2], "_OBJC_METACLASS_$_")))
    IN  LinkResult([a \in DOMAIN m |->
                       IF \E j \in 1..Len(relocs) : relocs[j][1] = a
                       THEN target(CHOOSE j \in 1..Len(relocs) : relocs[j][1] = a)
                       ELSE m[a]],
                   None,
                   [j \in 1..Len(relocs) |-> <<"mem.write", relocs[j][1], relocs[j][2]>>])

\* for &(ptr_ptr, ref name) in &bin.external_relocations
RECURSIVE link_relocations(_, _, _)
link_relocations(m, relocs, i) ==
    IF i > Len(relocs) THEN LinkResult(m, None, <<>>)
    ELSE LET ptr_ptr == relocs[i][1]
             name == relocs[i][2]
             class == strip_prefix(name, "_OBJC_CLASS_$_")
             metaclass == strip_prefix(name, "_OBJC_METACLASS_$_")
             ptr == IF IsSome(class) THEN link_class(class[1], FALSE)
                    ELSE link_class(metaclass[1], TRUE)
         IN  IF IsSome(class) \/ IsSome(metaclass)
             THEN LET rest == link_relocations(MemWrite(m, ptr_ptr, ptr), relocs, i + 1)
                  IN  [rest EXCEPT !.log = << <<"objc.link_class", ptr_ptr, name>>,
                                              <<"mem.write", ptr_ptr, name>> >> \o @]
             ELSE LET rest == link_relocations(m, relocs, i + 1)
                  IN  [rest EXCEPT !.log =
                          << <<"Warning: unhandled external relocation", ptr_ptr, name>> >> \o @]

\* for i in 0..ptr_count: a warning for each named entry, nothing else
RECURSIVE warn_non_lazy_symbols(_, _)
warn_non_lazy_symbols(ptrs, i) ==
    LET info == ptrs.dyld_indirect_symbol_info
    IN  IF i = ptrs.size \div info.entry_size THEN <<>>
        ELSE IF ~IsSome(info.indirect_undef_symbols[i + 1])
        THEN warn_non_lazy_symbols(ptrs, i + 1)
        ELSE << <<"Warning: unhandled non-lazy symbol", ptrs.addr + i * info.entry_size,
                  info.indirect_undef_symbols[i + 1][1]>> >>
             \o warn_non_lazy_symbols(ptrs, i + 1)

do_non_lazy_linking(bin, m) ==
    LET linked == link_relocations(m, bin.external_relocations, 1)
        ptrs == get_section(bin, "__nl_symbol_ptr")
    IN  IF ~IsSome(ptrs) THEN linked
        ELSE LET entry_size == ptrs[1].dyld_indirect_symbol_info.entry_size
             IN  IF entry_size # 4
                 THEN [linked EXCEPT !.panic = Panic("assertion failed", "entry_size == 4", 0, 0)]
                 ELSE IF ptrs[1].size % entry_size # 0
                 THEN [linked EXCEPT
                          !.panic = Panic("assertion failed", "ptrs.size % entry_size == 0", 0, 0)]
                 ELSE [linked EXCEPT !.log = @ \o warn_non_lazy_symbols(ptrs[1], 0)]

\* Mem::alloc: the address of a fresh block
mem_alloc(size) == 256

\* GuestFunction::is_thumb: bit 0 of the address
is_thumb(ptr) == ptr % 2 = 1

\* the return-to-host routine written at ptr
write_return_to_host_routine(m, ptr) ==
    MemWrite(MemWrite(m, ptr, encode_a32_svc(U32(SVC_RETURN_TO_HOST))),
             ptr + 4, encode_a32_trap)

\* for bin in bins { setup_lazy_linking; do_non_lazy_linking }
RECURSIVE link_bins_from(_, _, _)
link_bins_from(bs, m, k) ==
    IF k > Len(bs) THEN LinkResult(m, None, <<>>)
    ELSE LET lazy == setup_lazy_linking(bs[k], m)
             nonlazy == do_non_lazy_linking(bs[k], lazy.mem)
             rest == link_bins_from(bs, nonlazy.mem, k + 1)
             lazy_log == << <<"setup_lazy_linking", k, bs[k].name>> >>
             nonlazy_log == lazy_log \o << <<"do_non_lazy_linking", k, bs[k].name>> >>
                                     \o nonlazy.log
         IN  IF IsSome(lazy.panic) THEN LinkResult(lazy.mem, lazy.panic, lazy_log)
             ELSE IF IsSome(nonlazy.panic)
             THEN LinkResult(nonlazy.mem, nonlazy.panic, nonlazy_log)
             ELSE [rest EXCEPT !.log = nonlazy_log \o @]

\* mutant: the guard of do_initial_linking always passes
is_none_unchecked(o) == TRUE

\* Option::is_none
is_none(o) == ~IsSome(o)

\* the outcome of do_initial_linking: memory, the Dyld's routine, panic, log
InitialLinkResult(m, routine, p, log) ==
    [mem |-> m, return_to_host_routine |-> routine, panic |-> p, log |-> log]

\* mutant: classes and categories are registered before the binaries are linked
do_initial_linking_registers_classes_first(bs, m, routine) ==
    LET ptr == mem_alloc(8)
        linked == link_bins_from(bs, write_return_to_host_routine(m, ptr), 1)
    IN  InitialLinkResult(linked.mem, Some(ptr), linked.panic,
            << <<"mem.alloc", ptr, "">>,
               <<"objc.register_bin_selectors", 1, bs[1].name>>,
               <<"objc.register_host_selectors", 0, "">>,
               <<"objc.register_bin_classes", 1, bs[1].name>>,
               <<"objc.register_bin_categories", 1, bs[1].name>> >> \o linked.log)

do_initial_linking(bs, m, routine) ==
    IF ~is_none(routine)
    THEN InitialLinkResult(m, routine,
            Panic("assertion failed", "self.return_to_host_routine.is_none()", 0, 0), <<>>)
    ELSE
    LET ptr == mem_alloc(8)
        m1 == write_return_to_host_routine(m, ptr)
        allocated == << <<"mem.alloc", ptr, "">> >>
        linked == link_bins_from(bs, m1, 1)
        selectors == allocated \o << <<"objc.register_bin_selectors", 1, bs[1].name>>,
                                     <<"objc.register_host_selectors", 0, "">> >>
    IN  IF is_thumb(ptr)
        THEN InitialLinkResult(m1, routine,
                Panic("assertion failed", "!ptr.is_thumb()", 0, 0), allocated)
        ELSE IF IsSome(linked.panic)
        THEN InitialLinkResult(linked.mem, Some(ptr), linked.panic, selectors \o linked.log)
        ELSE InitialLinkResult(linked.mem, Some(ptr), None,
                selectors \o linked.log
                    \o << <<"objc.register_bin_classes", 1, bs[1].name>>,
                           <<"objc.register_bin_categories", 1, bs[1].name>> >>)

-----------------------------------------------------------------------------
(* The loaded binaries and the initial guest memory *)

\* number of call stubs of the app binary
MaxStubs == 2

NumStubs(k) == IF k = 1 THEN MaxStubs ELSE 1

StubBase(k) == 4096 * k

\* the app's __la_symbol_ptr follows its stubs, the dylib's precedes them
LaBase(k) == IF k = 1 THEN StubBase(k) + 256 ELSE StubBase(k) - 256

RelocAddr(k, j) == StubBase(k) + 512 + 4 * j

NlBase(k) == StubBase(k) + 768

\* the entries of a binary's __nl_symbol_ptr: one named, one not
NlSymbols(k) == <<Some(IF k = 1 THEN "_NSApp" ELSE "___stack_chk_guard"), None>>

TextAddr(j) == 512 + 4 * j

ExportAddr(k, symbol) == U32(32768 + 1024 * k + (IF symbol = "_guestF" THEN 0 ELSE 16))

\* what a stub may be bound to: a symbol name, or none
Bindings == {Some("_hostA"), Some("_both"), Some("_guestF"), None}

\* what the dylib's stub may be bound to
DylibBindings == {Some("_hostA"), Some("_guestF")}

StubSectionName(entry_size) ==
    IF entry_size = 12 THEN "__symbol_stub4" ELSE "__picsymbolstub4"

Section(addr, size, entry_size, symbols) ==
    [addr |-> addr, size |-> size,
     dyld_indirect_symbol_info |->
        [entry_size |-> entry_size, indirect_undef_symbols |-> symbols]]

StubBin(k, name, entry_size, symbols, exports, relocs) ==
    [name |-> name,
     sections |->
        [n \in {StubSectionName(entry_size), "__la_symbol_ptr", "__nl_symbol_ptr"} |->
            IF n = "__la_symbol_ptr"
            THEN Section(LaBase(k), 4 * Len(symbols), 4, symbols)
            ELSE IF n = "__nl_symbol_ptr"
            THEN Section(NlBase(k), 4 * Len(NlSymbols(k)), 4, NlSymbols(k))
            ELSE Section(StubBase(k), entry_size * Len(symbols), entry_size, symbols)],
     exported_symbols |-> [s \in exports |-> ExportAddr(k, s)],
     external_relocations |-> relocs]

ExportOnlyBin(k, name, exports) ==
    [name |-> name,
     sections |-> [n \in {} |-> 0],
     exported_symbols |-> [s \in exports |-> ExportAddr(k, s)],
     external_relocations |-> <<>>]

AppRelocations ==
    << <<RelocAddr(1, 0), "_OBJC_CLASS_$_Foo">>,
       <<RelocAddr(1, 1), "_objc_empty_cache">>,
       <<RelocAddr(1, 2), "_OBJC_METACLASS_$_Foo">> >>

DylibRelocations == << <<RelocAddr(2, 0), "_OBJC_CLASS_$_Bar">> >>

\* the app in either layout, a dylib with position-independent stubs, and an
\* export-only dylib
LoadedBins ==
    { << StubBin(1, "app", e1, syms1, x1, AppRelocations),
         StubBin(2, "libgcc", 16, syms2, x2, DylibRelocations),
         ExportOnlyBin(3, "libstdc++", x3) >> :
        e1 \in {12, 16},
        syms1 \in [1..NumStubs(1) -> Bindings], syms2 \in [1..NumStubs(2) -> DylibBindings],
        x1 \in SUBSET {"_guestF"}, x2 \in SUBSET {"_guestF"},
        x3 \in {{"_both"}, {"_both", "_guestF"}} }

\* the word a compiled binary holds at offset w (in words) of stub i of its section
CompiledStubWord(stubs, la, i, w) ==
    LET entry_size == stubs.dyld_indirect_symbol_info.entry_size
        template == expected_instructions(entry_size)
        stub_addr == stubs.addr + i * entry_size
        slot == la.addr + 4 * i
    IN  IF w < Len(template) THEN template[w + 1]
        ELSE IF entry_size = 12 THEN U32(slot)
        ELSE Sub32(U32(slot), U32(stub_addr + 12))

SectionAddrs(sec) == {sec.addr + 4 * w : w \in 0..((sec.size \div 4) - 1)}

BinAddrs(bin) ==
    IF ~IsSome(stub_section(bin)) THEN {}
    ELSE LET la == bin.sections["__la_symbol_ptr"]
         IN  SectionAddrs(stub_section(bin)[1]) \cup SectionAddrs(la) \cup {la.addr - 4}
             \cup SectionAddrs(bin.sections["__nl_symbol_ptr"])
             \cup {bin.external_relocations[j][1] : j \in 1..Len(bin.external_relocations)}

Addrs(bs) ==
    UNION {BinAddrs(bs[k]) : k \in 1..Len(bs)}
        \cup {mem_alloc(8), mem_alloc(8) + 4} \cup {TextAddr(1), TextAddr(2)}

InitialWord(bs, a) ==
    LET owners == {k \in 1..Len(bs) :
                     IsSome(stub_section(bs[k])) /\ in_section(stub_section(bs[k])[1], a)}
        slots == {k \in 1..Len(bs) :
                     IsSome(stub_section(bs[k])) /\ in_section(bs[k].sections["__la_symbol_ptr"], a)}
    IN  IF owners # {}
        THEN LET bin == bs[CHOOSE k \in owners : TRUE]
                 stubs == stub_section(bin)[1]
                 entry_size == stubs.dyld_indirect_symbol_info.entry_size
                 offset == a - stubs.addr
             IN  CompiledStubWord(stubs, bin.sections["__la_symbol_ptr"],
                                  offset \div entry_size, (offset % entry_size) \div 4)
        ELSE IF slots # {} THEN U32(64)
        ELSE IF a = TextAddr(1) THEN encode_a32_svc(U32(4))
        ELSE IF a = TextAddr(2) THEN encode_a32_svc(U32(SVC_LAZY_LINK))
        ELSE U32(0)

InitialMem(bs) == [a \in Addrs(bs) |-> InitialWord(bs, a)]

\* mov r0, r0 (0xe1a00000): an instruction that is in neither stub template
ForeignInstruction == <<225, 10485760>>

\* the addresses of the instruction words of the stubs of a binary
StubInstructionAddrs(bin) ==
    IF ~IsSome(stub_section(bin)) THEN {}
    ELSE LET stubs == stub_section(bin)[1]
             entry_size == stubs.dyld_indirect_symbol_info.entry_size
         IN  {stubs.addr + i * entry_size + 4 * j :
                 i \in 0..((stubs.size \div entry_size) - 1),
                 j \in 0..(Len(expected_instructions(entry_size)) - 1)}

\* images of binaries not in the expected compiled form: one instruction word
\* of one stub is not the template's
MismatchedMems(bs) ==
    {[InitialMem(bs) EXCEPT ![a] = ForeignInstruction] :
        a \in UNION {StubInstructionAddrs(bs[k]) : k \in 1..Len(bs)}}

\* an image whose first app stub has its __la_symbol_ptr at 0xef000000 (plain)
\* or at that offset (position-independent), beyond the modelled space: the
\* stub's trailing cell then reads as the word SVC #0. Only for a stub with
\* no bound symbol, which is never linked.
FarSlotMems(bs) ==
    LET stubs == stub_section(bs[1])[1]
        info == stubs.dyld_indirect_symbol_info
    IN  IF info.indirect_undef_symbols[1] = None
        THEN {[InitialMem(bs) EXCEPT ![stubs.addr + info.entry_size - 4] = <<239, 0>>]}
        ELSE {}

LoadedMems(bs) == {InitialMem(bs)} \cup MismatchedMems(bs) \cup FarSlotMems(bs)

NoCall ==
    [op |-> "none", svc_pc |-> 0, svc |-> 0, ret |-> None, invalidated |-> {}, log |-> <<>>,
     pc |-> U32(0)]

NoSearch == [lists |-> <<>>, symbol |-> "", ret |-> None, called |-> FALSE]

Init ==
    /\ search = NoSearch
    /\ cpu = NewCpu
    /\ cpu_last = NoCpuCall
    /\ env = NewEnvironment
    /\ thread_last = NoThreadCall
    /\ bins \in LoadedBins
    /\ mem \in LoadedMems(bins)
    /\ linked_host_functions = <<>>
    /\ return_to_host_routine = None
    /\ phase = "new"
    /\ panic = None
    /\ last = NoCall

-----------------------------------------------------------------------------
(* Operations *)

\* Dyld::do_initial_linking(bins, mem, objc); it is not given the Cpu, and
\* invalidates nothing
DoInitialLinking ==
    /\ phase \in {"new", "linked"}
    /\ LET r == do_initial_linking(bins, mem, return_to_host_routine)
       IN  /\ mem' = r.mem
           /\ return_to_host_routine' = r.return_to_host_routine
           /\ panic' = r.panic
           /\ phase' = IF IsSome(r.panic) THEN "panicked" ELSE "linked"
           /\ last' = [NoCall EXCEPT !.op = "do_initial_linking", !.log = r.log]
    /\ UNCHANGED <<bins, linked_host_functions, search, cpu_vars, thread_vars>>

IsSvc(w) == w[1] = 239

\* Cpu::run returns CpuState::Svc(svc) at svc_pc; the run loop asks
\* Dyld::get_svc_handler(bins, mem, cpu, svc_pc, svc).  An overflowing u32 `+`
\* panics (dev profile, overflow checks) or wraps (release): either outcome.
Svc(svc_pc) ==
    /\ phase = "linked"
    /\ IsSvc(mem[svc_pc])
    /\ \E r \in {get_svc_handler(bins, mem, linked_host_functions, overflow_checks,
                                  svc_pc, mem[svc_pc][2]) : overflow_checks \in BOOLEAN} :
           LET svc == mem[svc_pc][2]
           IN
           /\ mem' = r.mem
           /\ linked_host_functions' = r.lhf
           /\ panic' = r.panic
           /\ phase' = IF IsSome(r.panic) THEN "panicked" ELSE "linked"
           /\ last' = [op |-> "get_svc_handler", svc_pc |-> svc_pc, svc |-> svc, ret |-> r.ret,
                        invalidated |-> r.invalidated, log |-> <<>>, pc |-> U32(0)]
    /\ UNCHANGED <<bins, return_to_host_routine, search, cpu_vars, thread_vars>>

\* A32 execution of a call stub from address a with register ip, up to the
\* load of PC; the result is the new PC. An instruction at address a reads PC
\* as a + 8.
\*   0xe59fc00n  ldr ip, [pc, #n]      0xe08fc00c  add ip, pc, ip
\*   0xe59cf000  ldr pc, [ip]
RECURSIVE execute_stub(_, _, _)
execute_stub(m, a, ip) ==
    LET instr == MemRead(m, a)
    IN  IF instr = <<229, 10285056>>
        THEN MemRead(m, Ptr_from_bits(ip))
        ELSE IF instr = <<224, 9420812>>
        THEN execute_stub(m, a + 4, Add32(U32(a + 8), ip))
        ELSE IF instr[1] = 229 /\ instr[2] \in {10469376, 10469380}
        THEN execute_stub(m, a + 4, MemRead(m, a + 8 + (instr[2] - 10469376)))
        ELSE encode_a32_trap

\* get_svc_handler returned None for a lazy-link trap: "the execution needs to
\* resume at svc_pc", and Cpu::run executes the restored stub
Resume ==
    /\ phase = "linked"
    /\ last.op = "get_svc_handler"
    /\ last.svc = SVC_LAZY_LINK
    /\ last.ret = None
    /\ last' = [NoCall EXCEPT !.op = "cpu.run", !.svc_pc = last.svc_pc,
                              !.pc = execute_stub(mem, last.svc_pc, U32(0))]
    /\ UNCHANGED <<bins, mem, linked_host_functions, return_to_host_routine, phase, panic,
                   search, cpu_vars, thread_vars>>

Next ==
    \/ DoInitialLinking
    \/ \E svc_pc \in DOMAIN mem : Svc(svc_pc)
    \/ Resume

Spec == Init /\ [][Next]_vars

-----------------------------------------------------------------------------
(* search_lists on its own, over every registry of a bounded size *)

\* bounds: the number of lists, and the number of entries of a list
MaxLists == 2

MaxEntries == 2

SearchNames == {"_NSFoo", "_NSBar"}

SearchSymbols == SearchNames \cup {"_NSBaz"}

\* the entries a list may hold: a name registered twice, and another name
SearchEntries == {<<"_NSFoo", "f1">>, <<"_NSFoo", "f2">>, <<"_NSBar", "f1">>}

\* the sequences over S of length at most n
SeqsUpTo(S, n) == UNION {[1..len -> S] : len \in 0..n}

\* &'static [&'static [(&'static str, T)]]
SearchRegistries ==
    SeqsUpTo(SeqsUpTo(SearchEntries, MaxEntries), MaxLists)

\* the state of the linker before any binary is loaded
NoDyld ==
    /\ bins = <<>>
    /\ mem = <<>>
    /\ linked_host_functions = <<>>
    /\ return_to_host_routine = None
    /\ phase = "new"
    /\ panic = None
    /\ last = NoCall

SearchInit ==
    /\ search \in {[NoSearch EXCEPT !.lists = lists] : lists \in SearchRegistries}
    /\ NoDyld
    /\ cpu = NewCpu
    /\ cpu_last = NoCpuCall
    /\ env = NewEnvironment
    /\ thread_last = NoThreadCall

\* search_lists(lists, symbol)
SearchLists(symbol) ==
    /\ search' = [search EXCEPT !.symbol = symbol,
                                !.ret = search_lists(search.lists, symbol),
                                !.called = TRUE]
    /\ UNCHANGED <<dyld_vars, cpu_vars, thread_vars>>

SearchNext == \E symbol \in SearchSymbols : SearchLists(symbol)

SearchSpec == SearchInit /\ [][SearchNext]_vars

-----------------------------------------------------------------------------
(* The Cpu on its own: host code setting registers and the status word, and
   branching *)

\* bound: the number of guest code addresses branched to
MaxFns == 2

\* guest functions: low and high addresses, in A32 and in Thumb mode
GuestFunctions ==
    {U32(4096 * k + t) : k \in 1..MaxFns, t \in 0..1} \cup {<<255, 16773120>>, <<255, 16773121>>}

\* the values host code puts in the link register: a Thumb and an A32 address
ReturnAddrs == {<<0, 4097>>, <<255, 16773120>>}

\* status words: user mode, with and without condition flags and the Thumb flag
CpsrValues == {<<0, 16>>, <<0, 48>>, <<96, 16>>, <<96, 48>>}

CpuInit ==
    /\ cpu = NewCpu
    /\ cpu_last = NoCpuCall
    /\ env = NewEnvironment
    /\ thread_last = NoThreadCall
    /\ search = NoSearch
    /\ NoDyld

\* regs_mut()[i] = value, for an argument register and the link register
SetReg(i, value) ==
    /\ cpu' = [cpu EXCEPT !.regs[i] = value]
    /\ cpu_last' = [NoCpuCall EXCEPT !.op = "regs_mut"]
    /\ UNCHANGED <<dyld_vars, search, thread_vars>>

\* set_cpsr(value)
SetCpsr(value) ==
    /\ cpu' = [cpu EXCEPT !.cpsr = value]
    /\ cpu_last' = [NoCpuCall EXCEPT !.op = "set_cpsr"]
    /\ UNCHANGED <<dyld_vars, search, thread_vars>>

Branch(new_pc) ==
    /\ cpu' = branch(cpu, new_pc)
    /\ cpu_last' = [NoCpuCall EXCEPT !.op = "branch", !.new_pc = new_pc]
    /\ UNCHANGED <<dyld_vars, search, thread_vars>>

BranchWithLink(new_pc, new_lr) ==
    LET r == branch_with_link(cpu, new_pc, new_lr)
    IN  /\ cpu' = r.cpu
        /\ cpu_last' = [op |-> "branch_with_link", new_pc |-> new_pc, new_lr |-> new_lr,
                        ret |-> Some(r.ret)]
        /\ UNCHANGED <<dyld_vars, search, thread_vars>>

CpuNext ==
    \/ \E value \in ReturnAddrs : SetReg(LR, value)
    \/ SetReg(0, <<18, 3430008>>)
    \/ \E value \in CpsrValues : SetCpsr(value)
    \/ \E new_pc \in GuestFunctions : Branch(new_pc)
    \/ \E new_pc \in GuestFunctions, new_lr \in ReturnAddrs : BranchWithLink(new_pc, new_lr)

CpuSpec == CpuInit /\ [][CpuNext]_vars

-----------------------------------------------------------------------------
(* NSThread on its own: guest code on the running pthreads calling the class,
   and the pthreads NSThread started running the invocation helper *)

\* the pthreads guest code runs on
Running(e) == {t \in DOMAIN e.threads : e.threads[t].state = "running"}

ThreadInit ==
    /\ env = NewEnvironment
    /\ thread_last = NoThreadCall
    /\ cpu = NewCpu
    /\ cpu_last = NoCpuCall
    /\ search = NoSearch
    /\ NoDyld

Alive == env.panic = None

\* whether another reference to the object may be taken: one for every
\* thread object, besides the guest's own
Retainable(object) ==
    object # nil => (object \in DOMAIN env.refs /\ env.refs[object] < 1 + MaxObjects)

ThreadStep(r, op, pthread, this) ==
    /\ env' = r.env
    /\ thread_last' = [op |-> op, pthread |-> pthread, this |-> this, ret |-> r.ret]
    /\ UNCHANGED <<dyld_vars, search, cpu_vars>>

\* [NSThread currentThread] on the pthread
CurrentThread(pthread) ==
    /\ Alive
    /\ pthread \in Running(env)
    /\ pthread \in DOMAIN env.ns_threads \/ env.next_object <= MaxObjects
    /\ ThreadStep(currentThread(env, pthread), "currentThread", pthread, nil)

\* [[NSThread alloc] init]
Alloc ==
    /\ Alive
    /\ env.next_object <= MaxObjects
    /\ ThreadStep(allocWithZone(env), "alloc", 0, nil)

\* [this initWithTarget:target selector:selector object:object]
InitWithTarget(this, target, object) ==
    /\ Alive
    /\ this \in DOMAIN env.objects
    /\ Retainable(target)
    /\ Retainable(object)
    /\ ThreadStep(initWithTarget(env, this, target, "sel", object), "initWithTarget", 0, this)

\* [this start]
Start(this) ==
    /\ Alive
    /\ this \in DOMAIN env.objects
    /\ env.next_pthread <= MainThread + MaxPthreads
    /\ ThreadStep(start(env, this), "start", env.next_pthread, this)

\* [NSThread detachNewThreadSelector:selector toTarget:target withObject:object]
DetachNewThreadSelector(target, object) ==
    /\ Alive
    /\ env.next_object <= MaxObjects
    /\ env.next_pthread <= MainThread + MaxPthreads
    /\ Retainable(target)
    /\ Retainable(object)
    /\ ThreadStep(detachNewThreadSelector(env, "sel", target, object),
                  "detachNewThreadSelector", env.next_pthread, env.next_object)

\* a created pthread is scheduled: the helper runs up to the thread's method
HelperMain(pthread) ==
    /\ Alive
    /\ pthread \in DOMAIN env.threads
    /\ env.threads[pthread].state = "created"
    /\ ThreadStep(EnvResult(invocation_helper_main(env, pthread), nil),
                  "helper_main", pthread, env.threads[pthread].arg)

\* the thread's method returned: the helper runs to its end
HelperFinish(pthread) ==
    /\ Alive
    /\ pthread \in Running(env)
    /\ pthread # MainThread
    /\ ThreadStep(EnvResult(invocation_helper_finish(env, pthread), nil),
                  "helper_finish", pthread, env.threads[pthread].arg)

ThreadNext ==
    \/ \E pthread \in 1..(MainThread + MaxPthreads) : CurrentThread(pthread)
    \/ Alloc
    \/ \E this \in 1..MaxObjects : InitWithTarget(this, GuestTarget1, GuestArgument1)
    \/ \E this \in 1..MaxObjects : Start(this)
    \/ DetachNewThreadSelector(GuestTarget1, nil)
    \/ \E pthread \in 1..(MainThread + MaxPthreads) : HelperMain(pthread)
    \/ \E pthread \in 1..(MainThread + MaxPthreads) : HelperFinish(pthread)

ThreadSpec == ThreadInit /\ [][ThreadNext]_vars

-----------------------------------------------------------------------------
(* Vocabulary of the properties *)

\* the binaries that have a call-stub section
StubBins == {k \in 1..Len(bins) : IsSome(stub_section(bins[k]))}

StubsOf(k) == stub_section(bins[k])[1]

EntrySizeOf(k) == StubsOf(k).dyld_indirect_symbol_info.entry_size

\* the addresses of the stubs of binary k
StubStarts(k) ==
    {StubsOf(k).addr + i * EntrySizeOf(k) :
        i \in 0..((StubsOf(k).size \div EntrySizeOf(k)) - 1)}

AllStubStarts == UNION {StubStarts(k) : k \in StubBins}

BinOfStub(S) ==
    CHOOSE k \in 1..Len(bins) :
        IsSome(stub_section(bins[k])) /\ in_section(stub_section(bins[k])[1], S)

\* S is the address of a stub
IsStubStart(S) ==
    \E k \in 1..Len(bins) :
        /\ IsSome(stub_section(bins[k]))
        /\ in_section(stub_section(bins[k])[1], S)
        /\ (S - StubsOf(k).addr) % EntrySizeOf(k) = 0

EntrySizeAt(S) == EntrySizeOf(BinOfStub(S))

\* the symbol name bound to the stub at S (an Option)
BindingAt(S) ==
    LET k == BinOfStub(S)
    IN  StubsOf(k).dyld_indirect_symbol_info.indirect_undef_symbols[
            ((S - StubsOf(k).addr) \div EntrySizeOf(k)) + 1]

\* the number of instruction words of a stub: 2 (plain), 3 (position-independent)
InstructionWords(S) == IF EntrySizeAt(S) = 12 THEN 2 ELSE 3

\* the names the host registry holds, and the function registered first for each
HostNames == {"_hostA", "_both", "_hostC"}

FirstRegistered(symbol) ==
    CASE symbol = "_hostA" -> "fA_first"
      [] symbol = "_both" -> "fBoth_first"
      [] symbol = "_hostC" -> "fC"

\* the address of the last trap
Stub == last.svc_pc

\* the state right after get_svc_handler handled a lazy-link trap raised at a stub
LazyTrapHandled ==
    /\ last.op = "get_svc_handler"
    /\ last.svc = 0
    /\ IsStubStart(Stub)

\* the stub at S is bound to a name of the host registry
HostBound(S) == IsSome(BindingAt(S)) /\ BindingAt(S)[1] \in HostNames

\* the binaries after the first that export the symbol bound to the stub at S
DylibsExporting(S) ==
    {j \in 2..Len(bins) : BindingAt(S)[1] \in DOMAIN bins[j].exported_symbols}

\* the stub at S is bound to a name only a dylib provides
GuestBound(S) ==
    /\ IsSome(BindingAt(S))
    /\ BindingAt(S)[1] \notin HostNames
    /\ DylibsExporting(S) # {}

\* the address T the guest tier resolves the stub at S to
GuestTarget(S) == bins[Min(DylibsExporting(S))].exported_symbols[BindingAt(S)[1]]

\* the pointer slot the guest tier writes for the stub at S: the address in the
\* trailing cell (plain), S + 8 + the trailing offset modulo 2^32 (PIC)
PlainSlot(S) == Ptr_from_bits(mem[S + 8])

PicSlot(S) == Ptr_from_bits(Add32(U32(S + 8), mem[S + 12]))

WrittenSlot(S) == IF EntrySizeAt(S) = 12 THEN PlainSlot(S) ELSE PicSlot(S)

\* the stub at S is bound to a name neither the registry nor a searched dylib has
Unresolvable(S) ==
    /\ IsSome(BindingAt(S))
    /\ BindingAt(S)[1] \notin HostNames
    /\ DylibsExporting(S) = {}

\* the binaries other than the stub's own that export the symbol bound to it
OthersExporting(S) ==
    {j \in 1..Len(bins) :
        j # BinOfStub(S) /\ BindingAt(S)[1] \in DOMAIN bins[j].exported_symbols}

UnimplementedFunction(symbol) == Some(<<"Call to unimplemented function", symbol, 0, 0>>)

\* word w of the stub at S as the binary was compiled, and whether every
\* instruction word of the stub is as compiled
OriginalWord(S, w) ==
    LET k == BinOfStub(S)
    IN  CompiledStubWord(StubsOf(k), bins[k].sections["__la_symbol_ptr"],
                         (S - StubsOf(k).addr) \div EntrySizeOf(k), w)

TemplateRestored(S) ==
    \A j \in 0..(InstructionWords(S) - 1) : mem[S + 4 * j] = OriginalWord(S, j)

-----------------------------------------------------------------------------------------------------------------------------------------------------
(* C1: after lazy-stub installation every stub reads back as SVC #0        *)
(* (0xef000000), then the return encoding (0xe12fff1e), and for the        *)
(* 16-byte layout the trap encoding (0xe7ffdefe) in its third word.        *)
C1_LazyStubsInstalled ==
    (last.op = "do_initial_linking" /\ phase = "linked") =>
        \A S \in AllStubStarts :
            /\ mem[S] = <<239, 0>>
            /\ mem[S + 4] = <<225, 3145502>>
            /\ (EntrySizeAt(S) = 16 => mem[S + 8] = <<231, 16768766>>)

C1_Witness ==
    /\ last.op = "do_initial_linking"
    /\ phase = "linked"
    /\ EntrySizeOf(1) = 12
    /\ EntrySizeOf(2) = 16
    /\ mem[StubBase(2) + 8] = <<231, 16768766>>

(* C2: the Linked Host Function Table only grows, by one entry per         *)
(* successful host resolution, which gets trap code 2 + previous length;   *)
(* every other step leaves the table as it is, and entries keep their      *)
(* index.                                                                  *)
C2_TableAppendOnly ==
    [][ /\ Len(linked_host_functions') >= Len(linked_host_functions)
        /\ \A i \in 1..Len(linked_host_functions) :
              linked_host_functions'[i] = linked_host_functions[i]
        /\ (linked_host_functions' # linked_host_functions) =>
              /\ LazyTrapHandled'
              /\ HostBound(Stub')
              /\ linked_host_functions' =
                    Append(linked_host_functions, FirstRegistered(BindingAt(Stub')[1]))
              /\ mem'[Stub'] = <<239, 2 + Len(linked_host_functions)>>
        /\ (LazyTrapHandled' /\ IsSome(last'.ret)) =>
              Len(linked_host_functions') = Len(linked_host_functions) + 1
      ]_vars

C2_Witness ==
    /\ Len(linked_host_functions) = 2
    /\ LazyTrapHandled
    /\ IsSome(last.ret)

(* C3 as stated: over any sequence of lazy-link traps across all loaded    *)
(* binaries' stubs, the host function of a symbol is appended to the       *)
(* table at most once (the table holds no function twice).                 *)
C3_Original ==
    \A i, j \in 1..Len(linked_host_functions) :
        linked_host_functions[i] = linked_host_functions[j] => i = j

(* C3, amended: each stub allocates at most one trap code. Every table     *)
(* entry i belongs to exactly one stub, whose first word is SVC #(2 + i)   *)
(* and whose bound symbol resolves to that entry; two stubs bound to the   *)
(* same symbol each get an entry of their own.                             *)
C3_OneCodePerStub ==
    \A i \in 1..Len(linked_host_functions) :
        /\ Cardinality({S \in AllStubStarts : mem[S] = <<239, i + 1>>}) = 1
        /\ \A S \in AllStubStarts :
              mem[S] = <<239, i + 1>> =>
                 /\ HostBound(S)
                 /\ linked_host_functions[i] = FirstRegistered(BindingAt(S)[1])

C3_Witness ==
    /\ Len(linked_host_functions) = 2
    /\ linked_host_functions[1] = linked_host_functions[2]
    /\ LazyTrapHandled

(* C4: a lazy-link trap at a stub bound to a symbol of the host registry   *)
(* makes get_svc_handler return Some(the registry's function) and leaves   *)
(* the stub as SVC #(newly allocated code) followed by the return          *)
(* encoding.                                                               *)
C4_HostResolution ==
    (LazyTrapHandled /\ HostBound(Stub)) =>
        /\ phase = "linked"
        /\ last.ret = Some(FirstRegistered(BindingAt(Stub)[1]))
        /\ linked_host_functions # <<>>
        /\ linked_host_functions[Len(linked_host_functions)] = last.ret[1]
        /\ mem[Stub] = <<239, 2 + (Len(linked_host_functions) - 1)>>
        /\ mem[Stub + 4] = <<225, 3145502>>

C4_Witness ==
    /\ LazyTrapHandled
    /\ HostBound(Stub)
    /\ EntrySizeAt(Stub) = 12
    /\ last.ret = Some("fA_first")
    /\ mem[Stub] = <<239, 3>>

(* C5: guest-to-guest resolution is a round trip on the stub's             *)
(* instruction words: after it, the 2 (plain) or 3 (position-independent)  *)
(* instruction words equal the template the binary was compiled with.      *)
C5_GuestRoundTrip ==
    (LazyTrapHandled /\ GuestBound(Stub)) =>
        /\ TemplateRestored(Stub)
        /\ (EntrySizeAt(Stub) = 12 =>
              /\ mem[Stub] = <<229, 10469376>>
              /\ mem[Stub + 4] = <<229, 10285056>>)
        /\ (EntrySizeAt(Stub) = 16 =>
              /\ mem[Stub] = <<229, 10469380>>
              /\ mem[Stub + 4] = <<224, 9420812>>
              /\ mem[Stub + 8] = <<229, 10285056>>)

C5_Witness ==
    /\ LazyTrapHandled
    /\ GuestBound(Stub)
    /\ EntrySizeAt(Stub) = 16
    /\ phase = "linked"
    /\ TemplateRestored(Stub)

(* C6 as stated: for a position-independent stub at S resolved to T, the   *)
(* value the resolution writes is the offset T - (S + 8) modulo 2^32.      *)
C6_Original ==
    (LazyTrapHandled /\ GuestBound(Stub) /\ EntrySizeAt(Stub) = 16 /\ phase = "linked") =>
        mem[PicSlot(Stub)] = Sub32(GuestTarget(Stub), U32(Stub + 8))

(* C6, amended: for a position-independent stub at S resolved to T, the    *)
(* value written is the absolute address T; the offset held in the stub's  *)
(* trailing cell only locates the slot that is written, at S + 8 + offset  *)
(* modulo 2^32, and the trailing cell keeps its offset.                    *)
C6_PicWritesAbsolute ==
    (LazyTrapHandled /\ GuestBound(Stub) /\ EntrySizeAt(Stub) = 16 /\ phase = "linked") =>
        /\ mem[PicSlot(Stub)] = GuestTarget(Stub)
        /\ mem[Stub + 12] = OriginalWord(Stub, 3)

C6_Witness ==
    /\ LazyTrapHandled /\ GuestBound(Stub) /\ EntrySizeAt(Stub) = 16 /\ phase = "linked"
    /\ mem[Stub + 12][1] = 255
    /\ mem[PicSlot(Stub)] = GuestTarget(Stub)

(* C7 as stated: for a plain stub resolved guest-to-guest to T, the        *)
(* template is restored, T is written into the stub's trailing cell (the   *)
(* word after its two instructions) and None is returned.                  *)
C7_Original ==
    (LazyTrapHandled /\ GuestBound(Stub) /\ EntrySizeAt(Stub) = 12) =>
        /\ phase = "linked"
        /\ last.ret = None
        /\ TemplateRestored(Stub)
        /\ mem[Stub + 8] = GuestTarget(Stub)

(* C7, amended: for a plain stub resolved guest-to-guest to T, the         *)
(* template is restored, T is written into the pointer slot whose address  *)
(* the trailing cell holds, the trailing cell itself is unchanged, and     *)
(* None is returned.                                                       *)
C7_PlainGuestResolution ==
    (LazyTrapHandled /\ GuestBound(Stub) /\ EntrySizeAt(Stub) = 12) =>
        /\ phase = "linked"
        /\ last.ret = None
        /\ TemplateRestored(Stub)
        /\ mem[Stub + 8] = OriginalWord(Stub, 2)
        /\ mem[PlainSlot(Stub)] = GuestTarget(Stub)

C7_Witness ==
    /\ LazyTrapHandled /\ GuestBound(Stub) /\ EntrySizeAt(Stub) = 12
    /\ BinOfStub(Stub) = 1
    /\ 2 \in DylibsExporting(Stub)
    /\ last.ret = None
    /\ mem[PlainSlot(Stub)] = bins[2].exported_symbols[BindingAt(Stub)[1]]

(* C8: get_svc_handler aborts on an invalid trap code, the reserved        *)
(* return-to-host code 1 or a code >= 2 whose index code - 2 is not below  *)
(* the table length, and leaves the table and guest memory as they were.   *)
C8_InvalidCodeAborts ==
    [][ ( /\ last'.op = "get_svc_handler"
          /\ \/ last'.svc = 1
             \/ last'.svc >= 2 /\ last'.svc - 2 >= Len(linked_host_functions) ) =>
        ( /\ phase' = "panicked"
          /\ IsSome(panic')
          /\ last'.ret = None
          /\ mem' = mem
          /\ linked_host_functions' = linked_host_functions )
      ]_vars

C8_Witness ==
    /\ phase = "panicked"
    /\ last.op = "get_svc_handler"
    /\ last.svc = 4
    /\ Len(linked_host_functions) = 2
    /\ panic = Some(<<"Unexpected SVC", "", 4, TextAddr(1)>>)

(* C9: a lazy-link trap for a stub whose symbol is in neither the host     *)
(* registry nor a searched export table aborts with the error naming that  *)
(* symbol, with guest memory and the table unmodified.                     *)
C9_UnresolvedAborts ==
    [][ (LazyTrapHandled' /\ Unresolvable(Stub')) =>
            /\ phase' = "panicked"
            /\ panic' = UnimplementedFunction(BindingAt(Stub')[1])
            /\ mem' = mem
            /\ linked_host_functions' = linked_host_functions
      ]_vars

C9_Witness ==
    /\ LazyTrapHandled
    /\ Unresolvable(Stub)
    /\ panic = UnimplementedFunction("_guestF")
    /\ linked_host_functions # <<>>

(* C10 as stated: the guest tier searches the exports of every loaded      *)
(* binary other than the one containing the faulting stub, the primary     *)
(* binary included, and never the stub's own binary.                       *)
C10_Original ==
    (LazyTrapHandled /\ IsSome(BindingAt(Stub)) /\ BindingAt(Stub)[1] \notin HostNames) =>
        IF OthersExporting(Stub) # {}
        THEN /\ panic # UnimplementedFunction(BindingAt(Stub)[1])
             /\ TemplateRestored(Stub)
             /\ phase = "linked" =>
                   mem[WrittenSlot(Stub)] \in
                      {bins[j].exported_symbols[BindingAt(Stub)[1]] : j \in OthersExporting(Stub)}
        ELSE panic = UnimplementedFunction(BindingAt(Stub)[1])

(* C10, amended: the guest tier searches, in load order, the exports of    *)
(* the binaries after the first (bins[1..]), whichever binary contains     *)
(* the faulting stub: the first of them exporting the symbol provides the  *)
(* target, the primary binary's exports are never consulted, and a         *)
(* dylib's own exports are consulted for its own stubs.                    *)
C10_SearchesDylibs ==
    (LazyTrapHandled /\ IsSome(BindingAt(Stub)) /\ BindingAt(Stub)[1] \notin HostNames) =>
        IF DylibsExporting(Stub) # {}
        THEN /\ panic # UnimplementedFunction(BindingAt(Stub)[1])
             /\ TemplateRestored(Stub)
             /\ phase = "linked" => mem[WrittenSlot(Stub)] = GuestTarget(Stub)
        ELSE panic = UnimplementedFunction(BindingAt(Stub)[1])

C10_Witness ==
    /\ LazyTrapHandled
    /\ BinOfStub(Stub) = 2
    /\ IsSome(BindingAt(Stub)) /\ BindingAt(Stub)[1] \notin HostNames
    /\ DylibsExporting(Stub) = {2}
    /\ OthersExporting(Stub) = {1}
    /\ phase = "linked"
    /\ mem[WrittenSlot(Stub)] = bins[2].exported_symbols[BindingAt(Stub)[1]]

(* C11: the tiers are tried in order, host first: for a stub whose symbol   *)
(* is both in the host registry and exported by a searched guest binary,   *)
(* the lazy-link trap links the stub to the host function (new trap code,  *)
(* Some returned) and the guest tier is not applied: the template is not   *)
(* restored and no word other than the stub's first is written.            *)
C11_HostTierFirst ==
    [][ (LazyTrapHandled' /\ HostBound(Stub') /\ DylibsExporting(Stub') # {}) =>
            /\ phase' = "linked"
            /\ last'.ret = Some(FirstRegistered(BindingAt(Stub')[1]))
            /\ linked_host_functions' = Append(linked_host_functions, last'.ret[1])
            /\ mem'[Stub'] = <<239, 2 + Len(linked_host_functions)>>
            /\ ~TemplateRestored(Stub)'
            /\ \A a \in (DOMAIN mem) \ {Stub'} : mem'[a] = mem[a]
      ]_vars

C11_Witness ==
    /\ LazyTrapHandled
    /\ BindingAt(Stub) = Some("_both")
    /\ DylibsExporting(Stub) = {3}
    /\ last.ret = Some("fBoth_first")
    /\ mem[Stub] = <<239, 3>>
    /\ mem[Stub + 4] = <<225, 3145502>>

(* C12: setup_lazy_linking aborts with a fatal error whenever a stub of a   *)
(* binary's call-stub section differs in an instruction word from the      *)
(* template of the section's layout; the stub that does not match is left  *)
(* as it was, so installation never completes for that binary.             *)
C12_TemplateMismatchAborts ==
    [][ \A S \in AllStubStarts :
          ( /\ last'.op = "do_initial_linking"
            /\ ~IsSome(return_to_host_routine)
            /\ \E j \in 0..(InstructionWords(S) - 1) : mem[S + 4 * j] # OriginalWord(S, j) ) =>
          ( /\ phase' = "panicked"
            /\ panic' = Some(<<"assertion failed", "mem.read(ptr + j) == instr", 0, 0>>)
            /\ \A j \in 0..(InstructionWords(S) - 1) : mem'[S + 4 * j] = mem[S + 4 * j]
            /\ mem'[S] # <<239, 0>> )
      ]_vars

C12_Witness ==
    /\ last.op = "do_initial_linking"
    /\ phase = "panicked"
    /\ panic = Some(<<"assertion failed", "mem.read(ptr + j) == instr", 0, 0>>)
    /\ EntrySizeOf(1) = 16
    /\ mem[StubBase(1)] = <<239, 0>>
    /\ mem[StubBase(1) + 16] = <<229, 10469380>>
    /\ mem[StubBase(1) + 24] = <<225, 10485760>>

\* the faulting address is in no loaded binary's call-stub section
InNoStubSection(S) ==
    \A k \in 1..Len(bins) :
        IsSome(stub_section(bins[k])) => ~in_section(stub_section(bins[k])[1], S)

\* the faulting address is in a call-stub section, not at the start of a stub
Misaligned(S) == ~InNoStubSection(S) /\ (S - StubsOf(BinOfStub(S)).addr) % EntrySizeAt(S) # 0

\* the faulting address is a stub with no bound symbol name
Unbound(S) == IsStubStart(S) /\ BindingAt(S) = None

(* C13: do_lazy_link treats each run-time protocol violation as fatal and  *)
(* returns nothing: a faulting address in no call-stub section, an offset  *)
(* that is not a multiple of the entry size, and a stub with no bound      *)
(* symbol name each abort, with the table and guest memory unmodified.     *)
C13_ProtocolViolationsAbort ==
    [][ (last'.op = "get_svc_handler" /\ last'.svc = 0) =>
          /\ InNoStubSection(Stub') =>
                panic' = Some(<<"unwrap on None", "stubs", 0, 0>>)
          /\ Misaligned(Stub') =>
                panic' = Some(<<"assertion failed", "offset % info.entry_size == 0", 0, 0>>)
          /\ Unbound(Stub') =>
                panic' = Some(<<"unwrap on None", "symbol", 0, 0>>)
          /\ (InNoStubSection(Stub') \/ Misaligned(Stub') \/ Unbound(Stub')) =>
                /\ phase' = "panicked"
                /\ last'.ret = None
                /\ mem' = mem
                /\ linked_host_functions' = linked_host_functions
      ]_vars

C13_Witness ==
    /\ last.op = "get_svc_handler"
    /\ last.svc = 0
    /\ Misaligned(Stub)
    /\ phase = "panicked"
    /\ linked_host_functions = <<"fA_first">>
    /\ mem[StubBase(2)] = <<239, 2>>

\* the link state of the stub at S
LazyPatched(S) == mem[S] = <<239, 0>>

LinkedToHost(S) == mem[S][1] = 239 /\ mem[S][2] >= 2 /\ mem[S + 4] = <<225, 3145502>>

LinkedToGuest(S) == TemplateRestored(S)

(* C14: every call stub changes link state exactly once after              *)
(* installation: its first lazy-link trap that returns takes it from       *)
(* lazy-patched to linked-to-host or linked-to-guest, and from then on no  *)
(* trap, resolution of another stub or dispatch writes its instruction     *)
(* words again or makes it lazy-patched again.                             *)
C14_LinkedExactlyOnce ==
    [][ \A S \in AllStubStarts :
          /\ (phase = "linked" /\ ~LazyPatched(S)) =>
                /\ \A j \in 0..(InstructionWords(S) - 1) : mem'[S + 4 * j] = mem[S + 4 * j]
                /\ ~(LazyTrapHandled' /\ Stub' = S)
          /\ (LazyTrapHandled' /\ Stub' = S /\ phase' = "linked") =>
                /\ LazyPatched(S)
                /\ ~LazyPatched(S)'
                /\ LinkedToHost(S)' \/ LinkedToGuest(S)'
          /\ (phase = "linked" /\ LazyPatched(S) /\ ~(LazyTrapHandled' /\ Stub' = S)) =>
                LazyPatched(S)'
      ]_vars

C14_Witness ==
    /\ phase = "linked"
    /\ last.op = "get_svc_handler"
    /\ last.svc = 2
    /\ IsStubStart(Stub)
    /\ LinkedToHost(Stub)
    /\ \E S \in AllStubStarts :
          S # Stub /\ GuestBound(S) /\ LinkedToGuest(S) /\ BinOfStub(S) = BinOfStub(Stub)

\* the instruction words of stubs that the step rewrites
RewrittenCode ==
    {a \in UNION {StubInstructionAddrs(bins[k]) : k \in 1..Len(bins)} : mem'[a] # mem[a]}

(* C15 as stated: whenever the linker mutates guest code bytes, lazy-stub  *)
(* installation included, it calls invalidate_cache_range over a range     *)
(* covering all the rewritten instruction bytes.                           *)
C15_Original ==
    [][ RewrittenCode \subseteq last'.invalidated ]_vars

(* C15, amended: whenever lazy resolution mutates guest code bytes (host   *)
(* relink of a stub's first word, guest-tier restore of the template), it  *)
(* calls invalidate_cache_range over a range covering all the rewritten    *)
(* instruction bytes before it returns; lazy-stub installation rewrites    *)
(* the stubs without invalidating anything.                                *)
C15_ResolutionInvalidates ==
    [][ /\ last'.op = "get_svc_handler" =>
              /\ RewrittenCode \subseteq last'.invalidated
              /\ last'.invalidated \subseteq
                    {Stub' + 4 * j : j \in 0..2}
              /\ (LazyTrapHandled' /\ phase' = "linked") => Stub' \in last'.invalidated
        /\ last'.op = "do_initial_linking" => last'.invalidated = {}
      ]_vars

C15_Witness ==
    /\ LazyTrapHandled
    /\ GuestBound(Stub)
    /\ EntrySizeAt(Stub) = 16
    /\ last.invalidated = {Stub, Stub + 4, Stub + 8}
    /\ TemplateRestored(Stub)

\* the guard of do_initial_linking, and the routine it writes
AlreadyInitialized == Some(<<"assertion failed", "self.return_to_host_routine.is_none()", 0, 0>>)

RoutineWritten(m, routine) ==
    /\ routine[1] % 2 = 0
    /\ m[routine[1]] = <<239, 1>>
    /\ m[routine[1] + 4] = <<231, 16768766>>

\* the positions of the log of the last do_initial_linking that hold a `what`
Positions(what) == {i \in 1..Len(last.log) : last.log[i][1] = what}

(* C16: do_initial_linking succeeds at most once per linker: a second call *)
(* aborts on the single-use guard before allocating or writing guest       *)
(* memory, so the return-to-host routine (SVC #1 followed by the trap      *)
(* instruction, at a non-Thumb address) is allocated exactly once and      *)
(* return_to_host_routine() yields the same reference from then on.        *)
C16_SingleUse ==
    [][ /\ (last'.op = "do_initial_linking" /\ IsSome(return_to_host_routine)) =>
              /\ phase' = "panicked"
              /\ panic' = AlreadyInitialized
              /\ mem' = mem
              /\ Positions("mem.alloc")' = {}
        /\ IsSome(return_to_host_routine) =>
              /\ return_to_host_routine' = return_to_host_routine
              /\ RoutineWritten(mem', return_to_host_routine)
        /\ (return_to_host_routine' # return_to_host_routine) =>
              /\ last'.op = "do_initial_linking"
              /\ Cardinality(Positions("mem.alloc")') = 1
              /\ RoutineWritten(mem', return_to_host_routine')
      ]_vars

C16_Witness ==
    /\ last.op = "do_initial_linking"
    /\ panic = AlreadyInitialized
    /\ return_to_host_routine = Some(256)
    /\ RoutineWritten(mem, return_to_host_routine)
    /\ Len(linked_host_functions) = 1

\* the steps of the loop over the binaries
IsBinStep(e) == e[1] \in {"setup_lazy_linking", "do_non_lazy_linking"}

\* the loop step that position i of the log belongs to
BinStepBefore(i) ==
    last.log[CHOOSE j \in 1..i :
                /\ IsBinStep(last.log[j])
                /\ \A h \in (j + 1)..i : ~IsBinStep(last.log[h])]

RelocationTargets(k) ==
    {bins[k].external_relocations[j][1] : j \in 1..Len(bins[k].external_relocations)}

(* C17: do_initial_linking performs its steps in a fixed order: routine    *)
(* allocation, selector registration for the primary binary, then for      *)
(* every binary in load order lazy-stub installation followed by that      *)
(* binary's non-lazy linking, and only then class and category             *)
(* registration; every class or metaclass relocation write happens after   *)
(* selector registration and before class registration.                    *)
C17_FixedOrder ==
    (last.op = "do_initial_linking" /\ last.log # <<>>) =>
        /\ last.log[1][1] = "mem.alloc"
        /\ Positions("mem.alloc") = {1}
        /\ Positions("objc.register_bin_selectors") = {2}
        /\ last.log[2] = <<"objc.register_bin_selectors", 1, bins[1].name>>
        /\ Positions("objc.register_host_selectors") = {3}
        /\ \A i \in Positions("mem.write") :
              /\ i > 3
              /\ \A c \in Positions("objc.register_bin_classes") : i < c
              /\ BinStepBefore(i)[1] = "do_non_lazy_linking"
              /\ last.log[i][2] \in RelocationTargets(BinStepBefore(i)[2])
        /\ phase = "linked" =>
              /\ SelectSeq(last.log, IsBinStep) =
                    [i \in 1..(2 * Len(bins)) |->
                        <<IF i % 2 = 1 THEN "setup_lazy_linking" ELSE "do_non_lazy_linking",
                          (i + 1) \div 2, bins[(i + 1) \div 2].name>>]
              /\ Positions("objc.register_bin_classes") = {Len(last.log) - 1}
              /\ last.log[Len(last.log) - 1] = <<"objc.register_bin_classes", 1, bins[1].name>>
              /\ Positions("objc.register_bin_categories") = {Len(last.log)}
              /\ last.log[Len(last.log)] = <<"objc.register_bin_categories", 1, bins[1].name>>
              /\ \A i \in Positions("setup_lazy_linking") \cup Positions("do_non_lazy_linking") :
                    3 < i /\ i < Len(last.log) - 1

C17_Witness ==
    /\ last.op = "do_initial_linking"
    /\ phase = "linked"
    /\ Cardinality(Positions("mem.write")) = 3
    /\ last.log[5] = <<"do_non_lazy_linking", 1, "app">>
    /\ last.log[7] = <<"mem.write", RelocAddr(1, 0), "_OBJC_CLASS_$_Foo">>
    /\ \E i \in Positions("mem.write") : BinStepBefore(i)[2] = 2

\* the reference the object runtime returns for a class or metaclass symbol
ClassReference(name) ==
    CASE name = "_OBJC_CLASS_$_Foo" -> <<0, 49152>>
      [] name = "_OBJC_METACLASS_$_Foo" -> <<0, 49184>>
      [] name = "_OBJC_CLASS_$_Bar" -> <<0, 49216>>

HasClassPrefix(name) ==
    name \in {"_OBJC_CLASS_$_Foo", "_OBJC_METACLASS_$_Foo", "_OBJC_CLASS_$_Bar"}

\* the log of the last do_initial_linking holds the event
Logged(e) == \E i \in 1..Len(last.log) : last.log[i] = e

NonLazyEntries(k) ==
    IF "__nl_symbol_ptr" \in DOMAIN bins[k].sections
    THEN 1..Len(bins[k].sections["__nl_symbol_ptr"].dyld_indirect_symbol_info.indirect_undef_symbols)
    ELSE {}

NonLazyName(k, i) ==
    bins[k].sections["__nl_symbol_ptr"].dyld_indirect_symbol_info.indirect_undef_symbols[i]

NonLazyAddr(k, i) == bins[k].sections["__nl_symbol_ptr"].addr + 4 * (i - 1)

TemplateMismatch == Some(<<"assertion failed", "mem.read(ptr + j) == instr", 0, 0>>)

(* C18: in do_non_lazy_linking an external relocation with the class or    *)
(* metaclass prefix gets the reference of the object runtime written at    *)
(* its target; any other external relocation, and any named non-lazy       *)
(* pointer-table entry, only produces a diagnostic: nothing is written to  *)
(* guest memory for it, the following entries are still processed, and     *)
(* linking never aborts because of it.                                     *)
C18_NonLazyLinking ==
    [][ (last'.op = "do_initial_linking" /\ ~IsSome(return_to_host_routine)) =>
          /\ panic' \in {None, TemplateMismatch}
          /\ \A k \in 1..Len(bins) :
                LET processed == Logged(<<"do_non_lazy_linking", k, bins[k].name>>)'
                    relocs == bins[k].external_relocations
                IN  /\ \A j \in 1..Len(relocs) :
                          IF HasClassPrefix(relocs[j][2])
                          THEN processed => mem'[relocs[j][1]] = ClassReference(relocs[j][2])
                          ELSE /\ mem'[relocs[j][1]] = mem[relocs[j][1]]
                               /\ processed =>
                                     Logged(<<"Warning: unhandled external relocation",
                                              relocs[j][1], relocs[j][2]>>)'
                    /\ \A i \in NonLazyEntries(k) :
                          /\ mem'[NonLazyAddr(k, i)] = mem[NonLazyAddr(k, i)]
                          /\ (processed /\ IsSome(NonLazyName(k, i))) =>
                                Logged(<<"Warning: unhandled non-lazy symbol",
                                         NonLazyAddr(k, i), NonLazyName(k, i)[1]>>)'
      ]_vars

C18_Witness ==
    /\ last.op = "do_initial_linking"
    /\ phase = "linked"
    /\ mem[RelocAddr(1, 0)] = <<0, 49152>>
    /\ mem[RelocAddr(1, 1)] = <<0, 0>>
    /\ mem[RelocAddr(1, 2)] = <<0, 49184>>
    /\ mem[NlBase(1)] = <<0, 0>>
    /\ Logged(<<"Warning: unhandled external relocation", RelocAddr(1, 1), "_objc_empty_cache">>)
    /\ Logged(<<"Warning: unhandled non-lazy symbol", NlBase(1), "_NSApp">>)

\* entry (i, j) of the lists holds the symbol
Holds(lists, i, j, symbol) == lists[i][j][1] = symbol

\* the positions of the lists, and their order: list by list, each front to back
EntryPositions(lists) ==
    UNION {{<<i, j>> : j \in 1..Len(lists[i])} : i \in 1..Len(lists)}

Precedes(p, q) == p[1] < q[1] \/ (p[1] = q[1] /\ p[2] <= q[2])

\* ret is the entry of the first pair holding the symbol, None if there is none
FirstMatch(lists, symbol, ret) ==
    LET matches == {p \in EntryPositions(lists) : Holds(lists, p[1], p[2], symbol)}
    IN  IF matches = {} THEN ret = None
        ELSE \E p \in matches :
                /\ \A q \in matches : Precedes(p, q)
                /\ ret = Some(lists[p[1]][p[2]][2])

(* C19: search_lists returns the first match in a fixed order: scanning    *)
(* the lists in their declared order and each list front to back, it       *)
(* returns the entry of the first pair whose name equals the symbol (the   *)
(* earliest list wins), None when no list holds the name, and the same     *)
(* answer for the same symbol on every call.                               *)
C19_FirstMatch ==
    [][ search'.called =>
          /\ FirstMatch(search'.lists, search'.symbol, search'.ret)
          /\ (search.called /\ search'.symbol = search.symbol) => search'.ret = search.ret
      ]_vars

C19_Witness ==
    /\ search.called
    /\ search.symbol = "_NSFoo"
    /\ search.lists = << << <<"_NSBar", "f1">>, <<"_NSFoo", "f2">> >>,
                         << <<"_NSFoo", "f1">>, <<"_NSFoo", "f2">> >> >>
    /\ search.ret = Some("f2")

(* C20: host linkage is stable: once a stub has been linked to host        *)
(* function f, the code in its first word stays within the table and       *)
(* index code - 2 still selects f, whatever other stubs are resolved in    *)
(* between, so every later trap of that stub makes get_svc_handler return  *)
(* f.                                                                      *)
C20_HostLinkageStable ==
    /\ \A S \in AllStubStarts :
          LinkedToHost(S) =>
             /\ HostBound(S)
             /\ mem[S][2] - 2 < Len(linked_host_functions)
             /\ linked_host_functions[(mem[S][2] - 2) + 1] = FirstRegistered(BindingAt(S)[1])
    /\ (last.op = "get_svc_handler" /\ last.svc >= 2 /\ IsStubStart(Stub)) =>
          /\ phase = "linked"
          /\ last.ret = Some(FirstRegistered(BindingAt(Stub)[1]))
          /\ mem[Stub] = <<239, last.svc>>

C20_Witness ==
    /\ last.op = "get_svc_handler"
    /\ last.svc = 2
    /\ IsStubStart(Stub)
    /\ BindingAt(Stub) = Some("_both")
    /\ last.ret = Some("fBoth_first")
    /\ linked_host_functions = <<"fBoth_first", "fA_first">>
    /\ \E S \in AllStubStarts : mem[S] = <<239, 3>>

\* the address of the trailing data cell of the stub at S
TrailingCell(S) == S + EntrySizeAt(S) - 4

\* the addresses do_initial_linking writes outside of lazy-stub installation:
\* the return-to-host routine and the targets of the external relocations
LinkedOutsideStubs ==
    {mem_alloc(8), mem_alloc(8) + 4} \cup UNION {RelocationTargets(k) : k \in 1..Len(bins)}

(* C21: lazy-stub installation leaves each stub's trailing data cell       *)
(* unchanged: it writes only instruction words 0 and 1 of a plain stub and *)
(* words 0, 1 and 2 of a position-independent stub, never the last word    *)
(* of the entry and nothing outside the stub section.                      *)
C21_TrailingCellUntouched ==
    [][ last'.op = "do_initial_linking" =>
          /\ \A S \in AllStubStarts :
                /\ mem'[TrailingCell(S)] = mem[TrailingCell(S)]
                /\ TrailingCell(S) = S + 4 * InstructionWords(S)
                /\ phase' = "linked" =>
                      \A j \in 0..(InstructionWords(S) - 1) : mem'[S + 4 * j] # mem[S + 4 * j]
          /\ \A a \in DOMAIN mem :
                mem'[a] # mem[a] =>
                   \/ a \in LinkedOutsideStubs
                   \/ \E S \in AllStubStarts :
                         \E j \in 0..(InstructionWords(S) - 1) : a = S + 4 * j
      ]_vars

C21_Witness ==
    /\ last.op = "do_initial_linking"
    /\ phase = "linked"
    /\ EntrySizeOf(1) = 12
    /\ mem[StubBase(1)] = <<239, 0>>
    /\ mem[StubBase(1) + 8] = <<0, LaBase(1)>>
    /\ mem[StubBase(2) + 8] = <<231, 16768766>>
    /\ mem[StubBase(2) + 12] = <<255, 16776948>>

\* the state right after the stub at Stub, resolved guest-to-guest, was resumed
StubResumed == last.op = "cpu.run"

\* the slot the restored stub code loads PC from: the address in the trailing
\* cell (plain); the trailing offset added to PC as read by the add instruction
\* at S + 4, which is S + 12 (position-independent)
SlotRead(S) ==
    IF EntrySizeAt(S) = 12
    THEN Ptr_from_bits(mem[S + 8])
    ELSE Ptr_from_bits(Add32(U32(S + 12), mem[S + 12]))

(* C22 as stated: after a guest-to-guest resolution returned None,         *)
(* resuming at the faulting address completes the call: the pointer slot   *)
(* the linker wrote the target T into is the slot the restored stub code   *)
(* reads, for the plain and for the position-independent layout, so        *)
(* control reaches T.                                                      *)
C22_ResumeReachesTarget ==
    StubResumed =>
        /\ WrittenSlot(Stub) = SlotRead(Stub)
        /\ last.pc = GuestTarget(Stub)

\* a resumed position-independent stub whose written slot holds T while the
\* stub loaded PC from the next word
C22_Witness ==
    /\ StubResumed
    /\ EntrySizeAt(Stub) = 16
    /\ mem[WrittenSlot(Stub)] = GuestTarget(Stub)
    /\ SlotRead(Stub) = WrittenSlot(Stub) + 4
    /\ last.pc = mem[SlotRead(Stub)]
    /\ last.pc # GuestTarget(Stub)

\* bit 5 of the status word, and the status word without it
ThumbFlag(c) == (c.cpsr[2] \div 32) % 2 = 1

OtherCpsrBits(c) == <<c.cpsr[1], c.cpsr[2] - 32 * ((c.cpsr[2] \div 32) % 2)>>

\* the two parts of a function reference: its address, and its Thumb bit
AddressOf(f) == <<f[1], f[2] - (f[2] % 2)>>

IsThumb(f) == f[2] % 2 = 1

(* C23: Cpu::branch(f) sets PC and the mode flag consistently and nothing  *)
(* else: afterwards PC is f's address without the Thumb bit, the Thumb     *)
(* flag of CPSR equals f.is_thumb(), pc_with_thumb_bit() returns f, and    *)
(* the link register, all other registers and all other CPSR bits are      *)
(* unchanged.                                                              *)
C23_BranchSetsPcAndMode ==
    [][ cpu_last'.op = "branch" =>
          LET f == cpu_last'.new_pc
          IN  /\ cpu'.regs[PC] = AddressOf(f)
              /\ ThumbFlag(cpu') <=> IsThumb(f)
              /\ pc_with_thumb_bit(cpu') = f
              /\ \A i \in 0..14 : cpu'.regs[i] = cpu.regs[i]
              /\ OtherCpsrBits(cpu') = OtherCpsrBits(cpu)
      ]_vars

\* a branch to an A32 function out of Thumb mode, with condition flags, the
\* link register and an argument register set
C23_Witness ==
    /\ cpu_last.op = "branch"
    /\ cpu_last.new_pc = <<255, 16773120>>
    /\ cpu.cpsr = <<96, 16>>
    /\ cpu.regs[PC] = <<255, 16773120>>
    /\ cpu.regs[LR] = <<0, 4097>>
    /\ cpu.regs[0] = <<18, 3430008>>

(* C24: Cpu::branch_with_link(new_pc, new_lr) returns the pair (PC before  *)
(* the call merged with the Thumb flag before the call, link register      *)
(* before the call decoded as a function reference); afterwards the link   *)
(* register holds new_lr's address with its Thumb bit merged in, and PC    *)
(* and the Thumb flag are as after branch(new_pc).                         *)
C24_BranchWithLink ==
    [][ cpu_last'.op = "branch_with_link" =>
          LET new_pc == cpu_last'.new_pc
              new_lr == cpu_last'.new_lr
              old_pc == cpu_last'.ret[1][1]
              old_lr == cpu_last'.ret[1][2]
          IN  /\ AddressOf(old_pc) = cpu.regs[PC]
              /\ IsThumb(old_pc) <=> ThumbFlag(cpu)
              /\ old_lr = cpu.regs[LR]
              /\ cpu'.regs[LR] = new_lr
              /\ AddressOf(cpu'.regs[LR]) = AddressOf(new_lr)
              /\ IsThumb(cpu'.regs[LR]) <=> IsThumb(new_lr)
              /\ cpu'.regs[PC] = AddressOf(new_pc)
              /\ ThumbFlag(cpu') <=> IsThumb(new_pc)
              /\ cpu'.regs[PC] = branch(cpu, new_pc).regs[PC]
              /\ cpu'.cpsr = branch(cpu, new_pc).cpsr
      ]_vars

\* a call from Thumb code at 0x2000, whose link register held 0xfffff000, to
\* an A32 function, returning to the Thumb function at 0x1001
C24_Witness ==
    /\ cpu_last.op = "branch_with_link"
    /\ cpu_last.ret = Some(<< <<0, 8193>>, <<255, 16773120>> >>)
    /\ cpu_last.new_pc = <<0, 4096>>
    /\ cpu_last.new_lr = <<0, 4097>>
    /\ cpu.regs[PC] = <<0, 4096>>
    /\ cpu.regs[LR] = <<0, 4097>>
    /\ ~ThumbFlag(cpu)

\* the references held to an object; none once it is deallocated
RefCount(e, object) == IF object \in DOMAIN e.refs THEN e.refs[object] ELSE 0

GuestObjects == {GuestTarget1, GuestArgument1}

\* the two assertions on the registry
RegistryAssertions ==
    {Some("assertion failed: !ns_threads.contains_key(&pthread)"),
     Some("assertion failed: res.is_some()")}

(* C25: the NSThread registry holds at most one NSThread object per        *)
(* pthread and stays consistent across thread lifetimes. An entry keeps    *)
(* its object as long as it is present; currentThread returns the entry of *)
(* the calling pthread and creates an object only when there is none, so   *)
(* repeated calls return the same object and create at most one; start     *)
(* registers the new pthread, which was not registered before, under the   *)
(* started object; when the invocation helper finishes main the running    *)
(* pthread's entry is present and is removed, the pthread is finished and  *)
(* never registered again, and the target and the argument the thread      *)
(* object holds are released once each, by this step and by no other.      *)
C25_RegistryConsistent ==
    [][ /\ \A p \in DOMAIN env.ns_threads \cap DOMAIN env'.ns_threads :
              env'.ns_threads[p] = env.ns_threads[p]
        /\ env'.panic \notin RegistryAssertions
        /\ \A p \in DOMAIN env'.threads :
              env'.threads[p].state = "finished" => p \notin DOMAIN env'.ns_threads
        /\ thread_last'.op = "currentThread" =>
              LET p == thread_last'.pthread
              IN  /\ DOMAIN env'.ns_threads = DOMAIN env.ns_threads \cup {p}
                  /\ thread_last'.ret = env'.ns_threads[p]
                  /\ IF p \in DOMAIN env.ns_threads
                     THEN DOMAIN env'.objects = DOMAIN env.objects
                     ELSE /\ thread_last'.ret \notin DOMAIN env.objects
                          /\ DOMAIN env'.objects = DOMAIN env.objects \cup {thread_last'.ret}
        /\ thread_last'.op \in {"start", "detachNewThreadSelector"} =>
              LET p == thread_last'.pthread
              IN  /\ p \notin DOMAIN env.threads
                  /\ p \notin DOMAIN env.ns_threads
                  /\ env'.threads[p].arg = thread_last'.this
                  /\ env'.ns_threads = Insert(env.ns_threads, p, thread_last'.this)
        /\ (thread_last'.op = "helper_finish" /\ env'.panic = None) =>
              LET p == thread_last'.pthread
                  host == env.objects[thread_last'.this]
              IN  /\ p \in DOMAIN env.ns_threads
                  /\ env.ns_threads[p] = thread_last'.this
                  /\ env'.ns_threads = Without(env.ns_threads, p)
                  /\ env.threads[p].state = "running"
                  /\ env'.threads[p].state = "finished"
                  /\ \A o \in GuestObjects :
                        RefCount(env', o) =
                            RefCount(env, o) - (IF o \in {host.target, host.object} THEN 1 ELSE 0)
        /\ \A o \in GuestObjects :
              RefCount(env', o) < RefCount(env, o) => thread_last'.op = "helper_finish"
      ]_vars

\* a thread made with initWithTarget:selector:object: and started has run to
\* its end while the main thread keeps its own NSThread object
C25_Witness ==
    /\ thread_last.op = "helper_finish"
    /\ env.panic = None
    /\ MainThread \in DOMAIN env.ns_threads
    /\ thread_last.pthread \notin DOMAIN env.ns_threads
    /\ thread_last.this \in DOMAIN env.objects
    /\ env.ns_threads[MainThread] # thread_last.this
    /\ env.objects[thread_last.this].target = GuestTarget1
    /\ env.objects[thread_last.this].object = GuestArgument1
    /\ env.refs[GuestTarget1] = 1
    /\ env.refs[GuestArgument1] = 1

====
